---- MODULE Spec2Model ----
(***************************************************************************)
(* Status detection and remediation logic of the Recent / SysMain /        *)
(* System Restore utility.  The registry, the Service Control Manager and  *)
(* the privilege level are the environment; every public check or enable   *)
(* function is one action that runs the whole function and records what it *)
(* returned and which OS calls it made.                                    *)
(***************************************************************************)
EXTENDS Integers, Sequences, FiniteSets, TLC

VARIABLES
    admin,      \* utils::is_admin(): elevation of the process token
    hkcu,       \* HKEY_CURRENT_USER : <<key_path, value_name>> -> Option<u32>
    hklm,       \* HKEY_LOCAL_MACHINE: <<key_path, value_name>> -> Option<u32>
    hklmKeys,   \* HKEY_LOCAL_MACHINE keys that exist, among those the code opens by name
    svcState,   \* SysMain: SERVICE_STATUS.dwCurrentState
    svcStart,   \* SysMain: QUERY_SERVICE_CONFIGW.dwStartType
    winDirSet,  \* whether SystemRoot or windir is set in the environment
    prefetchDir, \* the Prefetch folder: missing, unreadable, or its entries
    last,       \* the last completed operation: name, inputs, result, OS calls
    running,    \* whether the window is open: iced runs app::update on each message
    state,      \* app::State, the argument of app::update
    tasks,      \* Task<Message> values scheduled and not yet delivered, with multiplicity
    pressed     \* how many Refresh / Enable buttons the user has pressed so far

regVars == <<hkcu, hklm, hklmKeys>>
svcVars == <<svcState, svcStart>>
fsVars == <<winDirSet, prefetchDir>>
guiVars == <<running, state, tasks, pressed>>
vars == <<admin, regVars, svcVars, fsVars, last, guiVars>>

-----------------------------------------------------------------------------
(* Option<u32>: None is the empty sequence, Some(v) the one-element one.   *)

NoneV == <<>>
Some(v) == <<v>>

\* The catalogs only ever compare a DWORD with 0 or 1.
DwordVals == {0, 1}
OptDword == {NoneV} \cup {Some(v) : v \in DwordVals}

-----------------------------------------------------------------------------
(* Registry keys                                                           *)

POLICY_KEY    == "Software\\Microsoft\\Windows\\CurrentVersion\\Policies\\Explorer"
TRACK_DOCS_KEY == "Software\\Microsoft\\Windows\\CurrentVersion\\Explorer\\Advanced"
EXPLORER_KEY  == "Software\\Microsoft\\Windows\\CurrentVersion\\Explorer"
COMDLG_KEY    == "Software\\Microsoft\\Windows\\CurrentVersion\\Policies\\Comdlg32"

PREFETCH_PARAMS_KEY ==
    "SYSTEM\\CurrentControlSet\\Control\\Session Manager\\Memory Management\\PrefetchParameters"
SYSTEM_RESTORE_KEY == "SOFTWARE\\Microsoft\\Windows NT\\CurrentVersion\\SystemRestore"
CFG_C_KEY == "SOFTWARE\\Microsoft\\Windows NT\\CurrentVersion\\SystemRestore\\Cfg\\C:"
VSS_C_KEY == "SYSTEM\\CurrentControlSet\\Services\\VSS\\Diag\\SystemRestore\\C:"

\* HKLM keys whose existence the code can observe (open_subkey on the key
\* itself); a value under such a key is readable only while the key exists.
TrackedHklmKeys == {PREFETCH_PARAMS_KEY, SYSTEM_RESTORE_KEY, CFG_C_KEY, VSS_C_KEY}

\* Values the two Recent catalogs read or write in each hive.
HkcuPaths ==
    { <<POLICY_KEY, "NoRecentDocsHistory">>, <<POLICY_KEY, "ClearRecentDocsOnExit">>,
      <<POLICY_KEY, "NoRecentDocsMenu">>,
      <<TRACK_DOCS_KEY, "Start_TrackDocs">>, <<TRACK_DOCS_KEY, "Start_TrackProgs">>,
      <<EXPLORER_KEY, "ShowRecent">>, <<EXPLORER_KEY, "ShowFrequent">>,
      <<COMDLG_KEY, "NoFileMru">>, <<COMDLG_KEY, "NoPlacesBar">> }

HklmPaths ==
    { <<POLICY_KEY, "NoRecentDocsHistory">>, <<POLICY_KEY, "NoRecentDocsMenu">>,
      <<PREFETCH_PARAMS_KEY, "EnablePrefetcher">>, <<PREFETCH_PARAMS_KEY, "EnableSuperfetch">>,
      <<SYSTEM_RESTORE_KEY, "DisableSR">>, <<SYSTEM_RESTORE_KEY, "RPSessionInterval">>,
      <<SYSTEM_RESTORE_KEY, "SystemRestorePointCreationFrequency">>,
      <<CFG_C_KEY, "DiskPercent">> }

RecentHklmPaths ==
    { <<POLICY_KEY, "NoRecentDocsHistory">>, <<POLICY_KEY, "NoRecentDocsMenu">> }

\* Keys an enable operation may try to write, as <<hive, key_path>>.
WriteKeys ==
    { <<"HKCU", POLICY_KEY>>, <<"HKCU", TRACK_DOCS_KEY>>, <<"HKCU", EXPLORER_KEY>>,
      <<"HKCU", COMDLG_KEY>>, <<"HKLM", POLICY_KEY>> }

-----------------------------------------------------------------------------
(* src/recent.rs                                                           *)

\* get_all_recent_checks: the static catalog, in catalog order.
\* source strings are the catalog's Russian captions, given here in ASCII:
\*   "Track documents"  = the Start_TrackDocs caption, and so on.
get_all_recent_checks ==
    << [source |-> "Group Policy: NoRecentDocsHistory", location |-> "HKCU",
        key_path |-> POLICY_KEY, value_name |-> "NoRecentDocsHistory",
        current_value |-> NoneV, expected_for_enabled |-> 0, severity |-> "Critical", is_policy |-> TRUE],
       [source |-> "Group Policy (Machine): NoRecentDocsHistory", location |-> "HKLM",
        key_path |-> POLICY_KEY, value_name |-> "NoRecentDocsHistory",
        current_value |-> NoneV, expected_for_enabled |-> 0, severity |-> "Critical", is_policy |-> TRUE],
       [source |-> "Group Policy: ClearRecentDocsOnExit", location |-> "HKCU",
        key_path |-> POLICY_KEY, value_name |-> "ClearRecentDocsOnExit",
        current_value |-> NoneV, expected_for_enabled |-> 0, severity |-> "Critical", is_policy |-> TRUE],
       [source |-> "Track documents", location |-> "HKCU",
        key_path |-> TRACK_DOCS_KEY, value_name |-> "Start_TrackDocs",
        current_value |-> NoneV, expected_for_enabled |-> 1, severity |-> "Important", is_policy |-> FALSE],
       [source |-> "Track programs", location |-> "HKCU",
        key_path |-> TRACK_DOCS_KEY, value_name |-> "Start_TrackProgs",
        current_value |-> NoneV, expected_for_enabled |-> 1, severity |-> "Important", is_policy |-> FALSE],
       [source |-> "Show recent items in Start", location |-> "HKCU",
        key_path |-> EXPLORER_KEY, value_name |-> "ShowRecent",
        current_value |-> NoneV, expected_for_enabled |-> 1, severity |-> "Minor", is_policy |-> FALSE],
       [source |-> "Show frequent items", location |-> "HKCU",
        key_path |-> EXPLORER_KEY, value_name |-> "ShowFrequent",
        current_value |-> NoneV, expected_for_enabled |-> 1, severity |-> "Minor", is_policy |-> FALSE],
       [source |-> "Recent files in open dialogs (NoFileMru)", location |-> "HKCU",
        key_path |-> COMDLG_KEY, value_name |-> "NoFileMru",
        current_value |-> NoneV, expected_for_enabled |-> 0, severity |-> "Minor", is_policy |-> FALSE],
       [source |-> "Recent folders in open dialogs (NoPlacesBar)", location |-> "HKCU",
        key_path |-> COMDLG_KEY, value_name |-> "NoPlacesBar",
        current_value |-> NoneV, expected_for_enabled |-> 0, severity |-> "Minor", is_policy |-> FALSE] >>

\* The registry as the functions read it: both hives.
Registry == [hkcu |-> hkcu, hklm |-> hklm, keys |-> hklmKeys]

\* read_registry_dword_from_hive: None when the key or value is missing.
read_registry_dword_from_hive(reg, hive, key_path, value_name) ==
    LET p == <<key_path, value_name>> IN
    IF hive = "HKLM"
    THEN (IF p \in DOMAIN reg.hklm /\ (key_path \in TrackedHklmKeys => key_path \in reg.keys)
          THEN reg.hklm[p] ELSE NoneV)
    ELSE (IF p \in DOMAIN reg.hkcu THEN reg.hkcu[p] ELSE NoneV)

\* Option::or_else
or_else(a, b) == IF a # NoneV THEN a ELSE b

\* read_registry_check: the check with its current_value populated.
read_registry_check(reg, check) ==
    LET value ==
          CASE check.location = "HKCU" ->
                 read_registry_dword_from_hive(reg, "HKCU", check.key_path, check.value_name)
            [] check.location = "HKLM" ->
                 read_registry_dword_from_hive(reg, "HKLM", check.key_path, check.value_name)
            [] OTHER ->
                 or_else(read_registry_dword_from_hive(reg, "HKLM", check.key_path, check.value_name),
                         read_registry_dword_from_hive(reg, "HKCU", check.key_path, check.value_name))
    IN [check EXCEPT !.current_value = value]

\* write_registry_dword: create_subkey + set_value; fails as a whole when the
\* key cannot be created/opened for writing (denied), else stores the value.
\* write_registry_dword, except that a denied write is reported as done.
write_registry_dword_reporting_ok(reg, hive, key_path, value_name, value, denied) ==
    LET p == <<key_path, value_name>> IN
    IF <<hive, key_path>> \in denied
    THEN [ok |-> TRUE, reg |-> reg]
    ELSE [ok |-> TRUE,
          reg |-> IF hive = "HKLM"
                  THEN [reg EXCEPT !.hklm = (p :> Some(value)) @@ reg.hklm,
                                   !.keys = IF key_path \in TrackedHklmKeys
                                            THEN @ \cup {key_path} ELSE @]
                  ELSE [reg EXCEPT !.hkcu = (p :> Some(value)) @@ reg.hkcu]]

write_registry_dword(reg, hive, key_path, value_name, value, denied) ==
    LET p == <<key_path, value_name>> IN
    IF <<hive, key_path>> \in denied
    THEN [ok |-> FALSE, reg |-> reg]
    ELSE [ok |-> TRUE,
          reg |-> IF hive = "HKLM"
                  THEN [reg EXCEPT !.hklm = (p :> Some(value)) @@ reg.hklm,
                                   !.keys = IF key_path \in TrackedHklmKeys
                                            THEN @ \cup {key_path} ELSE @]
                  ELSE [reg EXCEPT !.hkcu = (p :> Some(value)) @@ reg.hkcu]]

\* RecentCheck::is_enabled / is_blocking / is_policy_block
is_enabled(c) == c.current_value = Some(c.expected_for_enabled)
is_blocking(c) == ~is_enabled(c)
is_policy_block(c) == c.is_policy /\ is_blocking(c)

\* .map(|c| c.source.clone()).collect()
Sources(s) == [i \in DOMAIN s |-> s[i].source]

\* get_all_recent_checks().into_iter().map(read_registry_check).collect()
read_all_recent_checks(reg) ==
    [i \in DOMAIN get_all_recent_checks |-> read_registry_check(reg, get_all_recent_checks[i])]

RecentStatusOf(kind, en, dis, pol) ==
    [kind |-> kind, enabled_features |-> en, disabled_features |-> dis, policy_sources |-> pol]

\* Result<T, E>
Ok(v) == [ok |-> TRUE, value |-> v]
Err(e) == [ok |-> FALSE, error |-> e]

\* OperationResult::success / failure / requires_admin (src/domain.rs).  The
\* message is kept as its format string (in ASCII) and its arguments.
Msg(fmt, args) == [fmt |-> fmt, args |-> args]
OperationResult_success(message) ==
    [success |-> TRUE, message |-> message, requires_restart |-> FALSE, requires_admin |-> FALSE]
OperationResult_failure(message) ==
    [success |-> FALSE, message |-> message, requires_restart |-> FALSE, requires_admin |-> FALSE]
requires_admin(r) == [r EXCEPT !.requires_admin = TRUE]

\* classify_recent with the policy test demoted below the severity test.
classify_recent_severity_first(checks) ==
    LET policy_blocks == SelectSeq(checks, LAMBDA c : c.is_policy /\ is_blocking(c))
        important_checks == SelectSeq(checks, LAMBDA c : c.severity = "Important")
        important_failed == Len(SelectSeq(important_checks, is_blocking))
    IN  IF important_failed = Len(important_checks)
        THEN RecentStatusOf("FullyDisabled", <<>>, <<>>, <<>>)
        ELSE IF policy_blocks # <<>>
        THEN RecentStatusOf("DisabledByPolicy", <<>>, <<>>, Sources(policy_blocks))
        ELSE IF \E i \in DOMAIN checks : is_blocking(checks[i])
        THEN RecentStatusOf("PartiallyEnabled",
                            Sources(SelectSeq(checks, is_enabled)),
                            Sources(SelectSeq(checks, is_blocking)), <<>>)
        ELSE RecentStatusOf("FullyEnabled", <<>>, <<>>, <<>>)

\* get_recent_status, given the checks as read from the registry.
classify_recent(checks) ==
    LET policy_blocks == SelectSeq(checks, LAMBDA c : c.is_policy /\ is_blocking(c))
        critical_checks == SelectSeq(checks, LAMBDA c : c.severity = "Critical")
        important_checks == SelectSeq(checks, LAMBDA c : c.severity = "Important")
        critical_failed == Len(SelectSeq(critical_checks, is_blocking))
        important_failed == Len(SelectSeq(important_checks, is_blocking))
        important_total == Len(important_checks)
    IN  IF policy_blocks # <<>>
        THEN RecentStatusOf("DisabledByPolicy", <<>>, <<>>, Sources(policy_blocks))
        ELSE IF critical_failed > 0 \/ important_failed = important_total
        THEN RecentStatusOf("FullyDisabled", <<>>, <<>>, <<>>)
        ELSE IF important_failed > 0 \/ (\E i \in DOMAIN checks : is_blocking(checks[i]))
        THEN RecentStatusOf("PartiallyEnabled",
                            Sources(SelectSeq(checks, is_enabled)),
                            Sources(SelectSeq(checks, is_blocking)), <<>>)
        ELSE RecentStatusOf("FullyEnabled", <<>>, <<>>, <<>>)

get_recent_status(reg) == classify_recent(read_all_recent_checks(reg))

\* RecentStatus::is_enabled and the legacy is_recent_disabled.
status_is_enabled(status) == status.kind = "FullyEnabled"
is_recent_disabled(reg) == ~status_is_enabled(get_recent_status(reg))

\* The loop of enable_recent over the remaining checks; acc carries the
\* registry and the three counters, writes logs every attempted write.
RECURSIVE enable_recent_loop(_, _, _)
enable_recent_loop(checks, acc, denied) ==
    IF checks = <<>> THEN acc
    ELSE LET check == Head(checks) IN
         IF check.is_policy /\ check.location = "HKLM"
         THEN LET current == read_registry_check(acc.reg, check) IN
              enable_recent_loop(Tail(checks),
                  [acc EXCEPT !.policy_blocked = @ + (IF is_blocking(current) THEN 1 ELSE 0)],
                  denied)
         ELSE LET hive == IF check.location = "HKLM" THEN "HKLM" ELSE "HKCU"
                  w == write_registry_dword(acc.reg, hive, check.key_path, check.value_name,
                                            check.expected_for_enabled, denied)
              IN  enable_recent_loop(Tail(checks),
                      [acc EXCEPT !.reg = w.reg,
                                  !.fixed_count = @ + (IF w.ok THEN 1 ELSE 0),
                                  !.failed_count = @ + (IF w.ok THEN 0 ELSE 1),
                                  !.writes = Append(@, [hive |-> hive, key_path |-> check.key_path,
                                                        value_name |-> check.value_name,
                                                        value |-> check.expected_for_enabled,
                                                        ok |-> w.ok])],
                      denied)

\* enable_recent reporting success whenever no policy blocks, write failures
\* or not.
enable_recent_ignoring_failures(reg, denied) ==
    LET acc == enable_recent_loop(get_all_recent_checks,
                   [reg |-> reg, fixed_count |-> 0, failed_count |-> 0,
                    policy_blocked |-> 0, writes |-> <<>>], denied)
        res == IF acc.policy_blocked > 0
               THEN OperationResult_failure(
                        Msg("Enabled {} settings, {} blocked by policy, {} errors",
                            <<acc.fixed_count, acc.policy_blocked, acc.failed_count>>))
               ELSE OperationResult_success(
                        Msg("Successfully enabled {} Recent Files settings", <<acc.fixed_count>>))
    IN  acc @@ [result |-> Ok(res)]

\* enable_recent: the registry after the call, the counters and the result.
enable_recent(reg, denied) ==
    LET acc == enable_recent_loop(get_all_recent_checks,
                   [reg |-> reg, fixed_count |-> 0, failed_count |-> 0,
                    policy_blocked |-> 0, writes |-> <<>>], denied)
        res == IF acc.policy_blocked > 0
               THEN OperationResult_failure(
                        Msg("Enabled {} settings, {} blocked by policy, {} errors",
                            <<acc.fixed_count, acc.policy_blocked, acc.failed_count>>))
               ELSE IF acc.failed_count > 0
               THEN OperationResult_failure(
                        Msg("Enabled {} settings, {} errors",
                            <<acc.fixed_count, acc.failed_count>>))
               ELSE OperationResult_success(
                        Msg("Successfully enabled {} Recent Files settings", <<acc.fixed_count>>))
    IN  acc @@ [result |-> Ok(res)]

-----------------------------------------------------------------------------
(* src/services/recent.rs                                                  *)

\* build_checks: the catalog of the services layer, in catalog order.
build_checks ==
    << [name |-> "Track Documents", key |-> TRACK_DOCS_KEY, value |-> "Start_TrackDocs",
        expected |-> 1, actual |-> NoneV, severity |-> "Important", is_policy |-> FALSE],
       [name |-> "Track Programs", key |-> TRACK_DOCS_KEY, value |-> "Start_TrackProgs",
        expected |-> 1, actual |-> NoneV, severity |-> "Important", is_policy |-> FALSE],
       [name |-> "Show Recent", key |-> EXPLORER_KEY, value |-> "ShowRecent",
        expected |-> 1, actual |-> NoneV, severity |-> "Minor", is_policy |-> FALSE],
       [name |-> "Show Frequent", key |-> EXPLORER_KEY, value |-> "ShowFrequent",
        expected |-> 1, actual |-> NoneV, severity |-> "Minor", is_policy |-> FALSE],
       [name |-> "Policy Block", key |-> POLICY_KEY, value |-> "NoRecentDocsHistory",
        expected |-> 0, actual |-> NoneV, severity |-> "Critical", is_policy |-> TRUE],
       [name |-> "Menu Policy", key |-> POLICY_KEY, value |-> "NoRecentDocsMenu",
        expected |-> 0, actual |-> NoneV, severity |-> "Critical", is_policy |-> TRUE] >>

\* repositories::registry::read_hkcu / read_hklm
read_hkcu(reg, key, value) == read_registry_dword_from_hive(reg, "HKCU", key, value)
read_hklm(reg, key, value) == read_registry_dword_from_hive(reg, "HKLM", key, value)

\* RegistryCheck::is_ok (src/domain/recent.rs)
is_ok(c) == c.actual = Some(c.expected)

\* check_status with any() in place of all() over the Important checks.
check_status_any_important(checks) ==
    LET policy_blocked == \E i \in DOMAIN checks : checks[i].is_policy /\ ~is_ok(checks[i])
        important_failed ==
            \E i \in DOMAIN checks : checks[i].severity = "Important" /\ ~is_ok(checks[i])
        any_failed == \E i \in DOMAIN checks : ~is_ok(checks[i])
    IN  IF policy_blocked THEN "PolicyBlocked"
        ELSE IF important_failed THEN "FullyDisabled"
        ELSE IF any_failed THEN "PartiallyEnabled"
        ELSE "FullyEnabled"

\* check_status
check_status(checks) ==
    LET policy_blocked == \E i \in DOMAIN checks : checks[i].is_policy /\ ~is_ok(checks[i])
        important_failed ==
            \A i \in DOMAIN checks : checks[i].severity = "Important" => ~is_ok(checks[i])
        any_failed == \E i \in DOMAIN checks : ~is_ok(checks[i])
    IN  IF policy_blocked THEN "PolicyBlocked"
        ELSE IF important_failed THEN "FullyDisabled"
        ELSE IF any_failed THEN "PartiallyEnabled"
        ELSE "FullyEnabled"

\* The read loop of get_info: HKCU first; for a policy whose HKCU value is
\* missing or already the expected one, a value present in HKLM replaces it.
get_info_check(reg, check) ==
    LET val == read_hkcu(reg, check.key, check.value)
        hklm_val == read_hklm(reg, check.key, check.value)
    IN  [check EXCEPT !.actual =
            IF check.is_policy /\ (val = NoneV \/ val = Some(check.expected)) /\ hklm_val # NoneV
            THEN hklm_val ELSE val]

get_info_checks(reg) == [i \in DOMAIN build_checks |-> get_info_check(reg, build_checks[i])]

\* The loop of enable over the remaining checks.
RECURSIVE svc_enable_loop(_, _, _)
svc_enable_loop(checks, acc, denied) ==
    IF checks = <<>> THEN acc
    ELSE LET check == Head(checks)
             w1 == write_registry_dword(acc.reg, "HKCU", check.key, check.value,
                                        check.expected, denied)
             w2 == write_registry_dword(w1.reg, "HKLM", check.key, check.value,
                                        check.expected, denied)
             log1 == [hive |-> "HKCU", key_path |-> check.key, value_name |-> check.value,
                      value |-> check.expected, ok |-> w1.ok]
             log2 == [hive |-> "HKLM", key_path |-> check.key, value_name |-> check.value,
                      value |-> check.expected, ok |-> w2.ok]
         IN  IF check.is_policy
             THEN svc_enable_loop(Tail(checks),
                      [acc EXCEPT !.reg = w2.reg,
                                  !.needs_admin = @ \/ ~w2.ok,
                                  !.fixed = @ + (IF w1.ok \/ w2.ok THEN 1 ELSE 0),
                                  !.writes = @ \o <<log1, log2>>],
                      denied)
             ELSE svc_enable_loop(Tail(checks),
                      [acc EXCEPT !.reg = w1.reg,
                                  !.fixed = @ + (IF w1.ok THEN 1 ELSE 0),
                                  !.writes = Append(@, log1)],
                      denied)

\* services::recent::enable
svc_recent_enable(reg, denied) ==
    LET acc == svc_enable_loop(build_checks,
                   [reg |-> reg, fixed |-> 0, needs_admin |-> FALSE, writes |-> <<>>], denied)
        res == OperationResult_success(Msg("Enabled {} settings", <<acc.fixed>>))
    IN  acc @@ [result |-> Ok(IF acc.needs_admin
                              THEN requires_admin([res EXCEPT !.message =
                                       Msg("Enabled {} settings (some policy settings require admin)",
                                           <<acc.fixed>>)])
                              ELSE res)]

-----------------------------------------------------------------------------
(* src/service.rs                                                          *)

\* enable_recent of the public API: an error when Recent is already enabled,
\* else recent::enable_recent()?, whose OperationResult is dropped.
service_enable_recent(reg, denied) ==
    IF ~is_recent_disabled(reg)
    THEN [reg |-> reg, writes |-> <<>>, result |-> Err("RecentAlreadyEnabled")]
    ELSE LET e == enable_recent(reg, denied) IN
         [reg |-> e.reg, writes |-> e.writes, result |-> Ok("()")]

-----------------------------------------------------------------------------
(* Environment of the Recent operations                                    *)

\* At most this many registry keys refuse a write during one enable call.
MaxDenied == 1

\* Keys written by recent::enable_recent and by services::recent::enable.
RecentWriteKeys ==
    { <<"HKCU", POLICY_KEY>>, <<"HKCU", TRACK_DOCS_KEY>>, <<"HKCU", EXPLORER_KEY>>,
      <<"HKCU", COMDLG_KEY>> }
SvcRecentWriteKeys ==
    { <<"HKCU", POLICY_KEY>>, <<"HKCU", TRACK_DOCS_KEY>>, <<"HKCU", EXPLORER_KEY>>,
      <<"HKLM", POLICY_KEY>> }

\* Write-failure patterns an enable call can meet.
DeniedSets(keys) == {d \in SUBSET keys : Cardinality(d) <= MaxDenied}

\* Values read by only one of the two catalogs.
OnlySvcHkcu == { <<POLICY_KEY, "NoRecentDocsMenu">> }
OnlySvcHklm == { <<POLICY_KEY, "NoRecentDocsMenu">> }
OnlyRecentHkcu == { <<POLICY_KEY, "ClearRecentDocsOnExit">>,
                    <<COMDLG_KEY, "NoFileMru">>, <<COMDLG_KEY, "NoPlacesBar">> }

NoOp == [op |-> "none"]

\* Operations are calls: one runs to completion and hands its result to the
\* caller before the next one is invoked.
Idle == last.op = "none"

\* app::State (#[derive(Default)]): no status data, an empty status message,
\* every flag false.
State_default ==
    [recent_info |-> NoneV, sysmain_info |-> NoneV, system_restore_info |-> NoneV,
     status_message |-> Msg("", <<>>), is_admin |-> FALSE,
     show_recent_details |-> FALSE, show_prefetch_details |-> FALSE,
     recent_loading |-> FALSE, sysmain_loading |-> FALSE,
     system_restore_loading |-> FALSE]

\* The functions main.rs and services/ expose are also called without a
\* window: no State is being updated and no Task is in flight.
WindowClosed ==
    /\ running = FALSE
    /\ state = State_default
    /\ tasks = <<>>
    /\ pressed = 0

\* The Prefetch folder: readable and empty, unreadable (permission denied or
\* another read_dir error), or missing.
EmptyDir == [kind |-> "ok", entries |-> <<>>]
DeniedDir == [kind |-> "denied", entries |-> <<>>]
MissingDir == [kind |-> "missing", entries |-> <<>>]
ErrorDir == [kind |-> "error", entries |-> <<>>]

\* The registry of a machine on which all three features are enabled: every
\* HKCU value of the recent.rs catalog at its expected value, the machine
\* policy NoRecentDocsHistory at 0, EnablePrefetcher at 3, RPSessionInterval
\* at 1 and the VSS key of drive C: present.  Each Init below lets the values
\* of one feature range over every content and keeps the rest of this one.
EnabledHkcu ==
    [p \in HkcuPaths |->
        LET cs == {i \in DOMAIN get_all_recent_checks :
                     /\ get_all_recent_checks[i].location # "HKLM"
                     /\ <<get_all_recent_checks[i].key_path,
                          get_all_recent_checks[i].value_name>> = p}
        IN IF cs = {} THEN NoneV
           ELSE Some(get_all_recent_checks[CHOOSE i \in cs : TRUE].expected_for_enabled)]
EnabledHklm ==
    [p \in HklmPaths |->
        CASE p = <<POLICY_KEY, "NoRecentDocsHistory">> -> Some(0)
          [] p = <<PREFETCH_PARAMS_KEY, "EnablePrefetcher">> -> Some(3)
          [] p = <<SYSTEM_RESTORE_KEY, "RPSessionInterval">> -> Some(1)
          [] OTHER -> NoneV]
EnabledKeys == {PREFETCH_PARAMS_KEY, SYSTEM_RESTORE_KEY, VSS_C_KEY}

\* Any registry content over the values of one Recent catalog, the values
\* read only by the other catalog absent.
InitRecent ==
    /\ admin = FALSE
    /\ hkcu \in [HkcuPaths -> OptDword]
    /\ hklm \in {r @@ EnabledHklm : r \in [RecentHklmPaths -> OptDword]}
    /\ hklmKeys = EnabledKeys
    /\ \/ (\A p \in OnlySvcHkcu : hkcu[p] = NoneV) /\ (\A p \in OnlySvcHklm : hklm[p] = NoneV)
       \/ (\A p \in OnlyRecentHkcu : hkcu[p] = NoneV)
    /\ svcState = "SERVICE_RUNNING"
    /\ svcStart = "SERVICE_AUTO_START"
    /\ winDirSet = TRUE
    /\ prefetchDir = EmptyDir
    /\ last = NoOp
    /\ WindowClosed

-----------------------------------------------------------------------------
(* Operations on Recent                                                    *)

\* The caller takes the result of the finished call.
Return ==
    /\ ~Idle
    /\ last' = NoOp
    /\ UNCHANGED <<admin, regVars, svcVars, fsVars, guiVars>>

\* recent::get_recent_status()
GetRecentStatus ==
    /\ Idle
    /\ last' = [op |-> "get_recent_status",
                checks |-> read_all_recent_checks(Registry),
                result |-> Ok(get_recent_status(Registry))]
    /\ UNCHANGED <<admin, regVars, svcVars, fsVars, guiVars>>

\* recent::enable_recent()
EnableRecent ==
    /\ Idle
    /\ \E denied \in DeniedSets(RecentWriteKeys) :
        LET e == enable_recent(Registry, denied) IN
        /\ hkcu' = e.reg.hkcu
        /\ hklm' = e.reg.hklm
        /\ last' = [op |-> "enable_recent",
                    writes |-> e.writes, fixed_count |-> e.fixed_count,
                    failed_count |-> e.failed_count, policy_blocked |-> e.policy_blocked,
                    result |-> e.result]
        /\ hklmKeys' = e.reg.keys
        /\ UNCHANGED <<admin, svcVars, fsVars, guiVars>>

\* recent::get_recent_status() called on the result of enable_recent, before
\* anything else touches the registry.
GetRecentStatusAfterEnable ==
    /\ last.op = "enable_recent"
    /\ last' = [op |-> "get_recent_status after enable_recent",
                enabled |-> last.result,
                result |-> Ok(get_recent_status(Registry))]
    /\ UNCHANGED <<admin, regVars, svcVars, fsVars, guiVars>>

\* services::recent::get_info(): the checks and the status (the folder scan
\* is independent of both).
SvcRecentGetInfo ==
    /\ Idle
    /\ last' = [op |-> "services::recent::get_info",
                checks |-> get_info_checks(Registry),
                result |-> Ok([status |-> check_status(get_info_checks(Registry))])]
    /\ UNCHANGED <<admin, regVars, svcVars, fsVars, guiVars>>

\* services::recent::enable()
SvcRecentEnable ==
    /\ Idle
    /\ \E denied \in DeniedSets(SvcRecentWriteKeys) :
        LET e == svc_recent_enable(Registry, denied) IN
        /\ hkcu' = e.reg.hkcu
        /\ hklm' = e.reg.hklm
        /\ last' = [op |-> "services::recent::enable",
                    writes |-> e.writes, fixed |-> e.fixed, result |-> e.result]
        /\ hklmKeys' = e.reg.keys
        /\ UNCHANGED <<admin, svcVars, fsVars, guiVars>>

\* service::enable_recent()
ServiceEnableRecent ==
    /\ Idle
    /\ \E denied \in DeniedSets(RecentWriteKeys) :
        LET e == service_enable_recent(Registry, denied) IN
        /\ hkcu' = e.reg.hkcu
        /\ hklm' = e.reg.hklm
        /\ last' = [op |-> "service::enable_recent",
                    is_disabled |-> is_recent_disabled(Registry),
                    writes |-> e.writes, result |-> e.result]
        /\ hklmKeys' = e.reg.keys
        /\ UNCHANGED <<admin, svcVars, fsVars, guiVars>>

\* Status detection of Recent, over every registry content.
NextRecentStatus ==
    \/ GetRecentStatus
    \/ SvcRecentGetInfo
    \/ Return

SpecRecentStatus == InitRecent /\ [][NextRecentStatus]_vars

\* Remediation of Recent, over every registry content and failure pattern.
NextRecentEnable ==
    \/ EnableRecent
    \/ SvcRecentEnable
    \/ ServiceEnableRecent
    \/ GetRecentStatusAfterEnable
    \/ Return

SpecRecentEnable == InitRecent /\ [][NextRecentEnable]_vars

-----------------------------------------------------------------------------
(* src/domain.rs: SysMain types                                            *)

ServiceStatus ==
    {"Running", "Stopped", "Paused", "StartPending", "StopPending", "Unknown", "NotFound"}
StartupType == {"Automatic", "AutomaticDelayed", "Manual", "Disabled", "Unknown"}

\* PrefetcherMode::Unknown(v) carries the raw value; the other variants do not.
PrefetcherMode_Unknown(v) == [mode |-> "Unknown", value |-> <<v>>]
PrefetcherMode_of(m) == [mode |-> m, value |-> <<>>]

\* PrefetcherMode::from_registry_value
from_registry_value(value) ==
    CASE value = 0 -> PrefetcherMode_of("Disabled")
      [] value = 1 -> PrefetcherMode_of("BootOnly")
      [] value = 2 -> PrefetcherMode_of("ApplicationsOnly")
      [] value = 3 -> PrefetcherMode_of("FullyEnabled")
      [] OTHER     -> PrefetcherMode_Unknown(value)

\* PrefetcherMode::is_enabled
mode_is_enabled(m) == m.mode # "Disabled"

\* ServiceStatus::is_running
is_running(s) == s = "Running"

\* StartupType::is_auto
is_auto(t) == t \in {"Automatic", "AutomaticDelayed"}

\* The aggregate without the Prefetcher conjunct.
is_fully_enabled_service_only(info) ==
    is_running(info.service_status) /\ is_auto(info.startup_type)

\* SysMainInfo::is_fully_enabled
is_fully_enabled(info) ==
    /\ is_running(info.service_status)
    /\ is_auto(info.startup_type)
    /\ mode_is_enabled(info.prefetcher_mode)

\* One line of get_issues: its format and the value it shows.
Issue(fmt, args) == [fmt |-> fmt, args |-> args]

\* The line get_issues pushes for an inaccessible folder, if any.
folder_issue(prefetch_info) ==
    IF prefetch_info.folder_accessible THEN <<>>
    ELSE IF prefetch_info.requires_admin
    THEN <<Issue("Administrator rights are required to access the folder", <<>>)>>
    ELSE IF prefetch_info.error_message # NoneV
    THEN <<Issue("Folder access error: {}", prefetch_info.error_message)>>
    ELSE <<>>

\* get_issues without the startup type test.
get_issues_without_startup(info) ==
    (IF ~is_running(info.service_status)
     THEN <<Issue("SysMain service: {}", <<info.service_status>>)>> ELSE <<>>)
    \o (IF ~mode_is_enabled(info.prefetcher_mode)
        THEN <<Issue("Prefetcher: {}", <<info.prefetcher_mode>>)>> ELSE <<>>)
    \o folder_issue(info.prefetch_info)

\* SysMainInfo::get_issues; the values shown are the as_str() captions of the
\* variants, one caption per variant.
get_issues(info) ==
    (IF ~is_running(info.service_status)
     THEN <<Issue("SysMain service: {}", <<info.service_status>>)>> ELSE <<>>)
    \o (IF ~is_auto(info.startup_type)
        THEN <<Issue("Startup type: {}", <<info.startup_type>>)>> ELSE <<>>)
    \o (IF ~mode_is_enabled(info.prefetcher_mode)
        THEN <<Issue("Prefetcher: {}", <<info.prefetcher_mode>>)>> ELSE <<>>)
    \o folder_issue(info.prefetch_info)

-----------------------------------------------------------------------------
(* OperationResult and the OS call log                                     *)

\* One Win32 / process call made by an operation: the API, its object
\* (handle name or argument) and whether it succeeded.
Call(api, arg, ok) == [api |-> api, arg |-> arg, ok |-> ok]

OpenScm(access, ok) == Call("OpenSCManagerW", access, ok)
OpenSvc(access, ok) == Call("OpenServiceW", access, ok)
CloseHandle(h) == Call("CloseServiceHandle", h, TRUE)

-----------------------------------------------------------------------------
(* src/sysmain.rs                                                          *)

ERROR_SERVICE_ALREADY_RUNNING == 1056

\* First SCM call of a query that fails, "none" when all of them succeed.
QueryFaults == {"none", "scm", "service", "query"}

\* match status.dwCurrentState in get_sysmain_status
status_of_state(dwCurrentState) ==
    CASE dwCurrentState = "SERVICE_RUNNING"       -> "Running"
      [] dwCurrentState = "SERVICE_STOPPED"       -> "Stopped"
      [] dwCurrentState = "SERVICE_PAUSED"        -> "Paused"
      [] dwCurrentState = "SERVICE_START_PENDING" -> "StartPending"
      [] dwCurrentState = "SERVICE_STOP_PENDING"  -> "StopPending"
      [] OTHER                                    -> "Unknown"

\* sysmain::get_sysmain_status
get_sysmain_status(dwCurrentState, fault) ==
    CASE fault = "scm" ->
            [value |-> "NotFound",
             calls |-> <<OpenScm("SC_MANAGER_CONNECT", FALSE)>>]
      [] fault = "service" ->
            [value |-> "NotFound",
             calls |-> <<OpenScm("SC_MANAGER_CONNECT", TRUE),
                         OpenSvc("SERVICE_QUERY_STATUS", FALSE),
                         CloseHandle("scm")>>]
      [] fault = "query" ->
            [value |-> "Unknown",
             calls |-> <<OpenScm("SC_MANAGER_CONNECT", TRUE),
                         OpenSvc("SERVICE_QUERY_STATUS", TRUE),
                         Call("QueryServiceStatus", "service", FALSE),
                         CloseHandle("service"), CloseHandle("scm")>>]
      [] OTHER ->
            [value |-> status_of_state(dwCurrentState),
             calls |-> <<OpenScm("SC_MANAGER_CONNECT", TRUE),
                         OpenSvc("SERVICE_QUERY_STATUS", TRUE),
                         Call("QueryServiceStatus", "service", TRUE),
                         CloseHandle("service"), CloseHandle("scm")>>]

\* match config.dwStartType in get_sysmain_startup_type
startup_of_type(dwStartType) ==
    CASE dwStartType = "SERVICE_AUTO_START"   -> "Automatic"
      [] dwStartType = "SERVICE_DEMAND_START" -> "Manual"
      [] dwStartType = "SERVICE_DISABLED"     -> "Disabled"
      [] OTHER                                -> "Unknown"

\* sysmain::get_sysmain_startup_type
get_sysmain_startup_type(dwStartType, fault) ==
    CASE fault = "scm" ->
            [value |-> "Unknown",
             calls |-> <<OpenScm("SC_MANAGER_CONNECT", FALSE)>>]
      [] fault = "service" ->
            [value |-> "Unknown",
             calls |-> <<OpenScm("SC_MANAGER_CONNECT", TRUE),
                         OpenSvc("SERVICE_QUERY_CONFIG", FALSE),
                         CloseHandle("scm")>>]
      [] fault = "query" ->
            [value |-> "Unknown",
             calls |-> <<OpenScm("SC_MANAGER_CONNECT", TRUE),
                         OpenSvc("SERVICE_QUERY_CONFIG", TRUE),
                         Call("QueryServiceConfigW", "service", FALSE),
                         CloseHandle("service"), CloseHandle("scm")>>]
      [] OTHER ->
            [value |-> startup_of_type(dwStartType),
             calls |-> <<OpenScm("SC_MANAGER_CONNECT", TRUE),
                         OpenSvc("SERVICE_QUERY_CONFIG", TRUE),
                         Call("QueryServiceConfigW", "service", TRUE),
                         CloseHandle("service"), CloseHandle("scm")>>]

\* Option::unwrap_or
unwrap_or(o, d) == IF o = NoneV THEN d ELSE o[1]

\* sysmain::get_prefetcher_mode
get_prefetcher_mode(reg) ==
    IF PREFETCH_PARAMS_KEY \notin reg.keys
    THEN PrefetcherMode_Unknown(0)
    ELSE from_registry_value(unwrap_or(reg.hklm[<<PREFETCH_PARAMS_KEY, "EnablePrefetcher">>], 3))

\* sysmain::get_superfetch_mode
get_superfetch_mode(reg) ==
    IF PREFETCH_PARAMS_KEY \notin reg.keys
    THEN PrefetcherMode_Unknown(0)
    ELSE from_registry_value(unwrap_or(reg.hklm[<<PREFETCH_PARAMS_KEY, "EnableSuperfetch">>], 3))

\* OsStr::eq_ignore_ascii_case, on the extensions the model uses
to_ascii_lowercase(s) ==
    CASE s = "PF" -> "pf"
      [] s = "Pf" -> "pf"
      [] s = "TXT" -> "txt"
      [] OTHER -> s
eq_ignore_ascii_case(a, b) == to_ascii_lowercase(a) = to_ascii_lowercase(b)

\* The fold of scan_prefetch_directory over the modification times.
RECURSIVE scan_fold(_, _)
scan_fold(times, acc) ==
    IF times = <<>> THEN acc
    ELSE LET time == Head(times) IN
         scan_fold(Tail(times),
                   [count  |-> acc.count + 1,
                    oldest |-> Some(IF acc.oldest = NoneV THEN time
                                    ELSE IF acc.oldest[1] < time THEN acc.oldest[1] ELSE time),
                    newest |-> Some(IF acc.newest = NoneV THEN time
                                    ELSE IF acc.newest[1] > time THEN acc.newest[1] ELSE time)])

\* sysmain::scan_prefetch_directory
scan_prefetch_directory(dir) ==
    CASE dir.kind = "missing" ->
            [pf_count |-> 0, oldest_time |-> NoneV, newest_time |-> NoneV,
             folder_accessible |-> FALSE, requires_admin |-> FALSE,
             error_message |-> <<"Prefetch folder does not exist">>]
      [] dir.kind = "denied" ->
            [pf_count |-> 0, oldest_time |-> NoneV, newest_time |-> NoneV,
             folder_accessible |-> FALSE, requires_admin |-> TRUE,
             error_message |-> <<"No access to the Prefetch folder. Run as administrator.">>]
      [] dir.kind = "error" ->
            [pf_count |-> 0, oldest_time |-> NoneV, newest_time |-> NoneV,
             folder_accessible |-> FALSE, requires_admin |-> FALSE,
             error_message |-> <<"Error reading the Prefetch folder: {}">>]
      [] OTHER ->
            LET readable == SelectSeq(dir.entries, LAMBDA e : e.ok)
                pf == SelectSeq(readable,
                        LAMBDA e : e.ext # NoneV /\ eq_ignore_ascii_case(e.ext[1], "pf"))
                timed == SelectSeq(pf, LAMBDA e : e.modified # NoneV)
                times == [i \in DOMAIN timed |-> timed[i].modified[1]]
                f == scan_fold(times, [count |-> 0, oldest |-> NoneV, newest |-> NoneV])
            IN [pf_count |-> f.count, oldest_time |-> f.oldest, newest_time |-> f.newest,
                folder_accessible |-> TRUE, requires_admin |-> FALSE,
                error_message |-> NoneV]

\* sysmain::get_prefetch_info (get_prefetch_folder fails when neither
\* SystemRoot nor windir is set)
get_prefetch_info(envSet, dir) ==
    IF ~envSet THEN Err("Failed to get Windows directory path")
    ELSE Ok(scan_prefetch_directory(dir))

\* sysmain::get_sysmain_info
get_sysmain_info(reg, dwCurrentState, dwStartType, envSet, dir, statusFault, startupFault) ==
    LET st == get_sysmain_status(dwCurrentState, statusFault)
        su == get_sysmain_startup_type(dwStartType, startupFault)
        pi == get_prefetch_info(envSet, dir)
    IN [calls  |-> st.calls \o su.calls,
        result |-> IF ~pi.ok THEN pi
                   ELSE Ok([service_status  |-> st.value,
                            startup_type    |-> su.value,
                            prefetcher_mode |-> get_prefetcher_mode(reg),
                            superfetch_mode |-> get_superfetch_mode(reg),
                            prefetch_info   |-> pi.value])]

\* A u32 as its two 16-bit halves.
u32(n) == [hi |-> n \div 65536, lo |-> n % 65536]

\* HRESULT::from_win32, which windows::core::Error::from_thread() applies to
\* GetLastError(): (error & 0x0000_FFFF) | (7 << 16) | 0x8000_0000 for a
\* non-zero code.  The result is the u32 that `err.code().0 as u32` reads.
hresult_from_win32(error) ==
    IF error = 0 THEN u32(0) ELSE [hi |-> 32768 + 7, lo |-> error % 65536]

\* Win32 StartServiceW: the error codes it can give for the service state
\* (0 is success).  A service that is not stopped cannot be started again.
StartServiceW_codes(dwCurrentState) ==
    IF dwCurrentState = "SERVICE_STOPPED"
    THEN {0, 5, 1053}
    ELSE {ERROR_SERVICE_ALREADY_RUNNING, 5}

\* The state a successfully started service is observed in.
StartedStates == {"SERVICE_START_PENDING", "SERVICE_RUNNING"}

\* sysmain::start_service: TRUE for Ok(()), FALSE for Err
start_service(code) ==
    LET is_err == code # 0 IN
    ~(is_err /\ hresult_from_win32(code) # u32(ERROR_SERVICE_ALREADY_RUNNING))

\* sysmain::enable_sysmain.  fault is the first SCM call that fails; code and
\* started are what StartServiceW does when it is reached.
EnableFaults == {"none", "scm", "service", "config"}

\* enable_sysmain returning from a failed ChangeServiceConfigW without
\* closing the two handles.
enable_sysmain_leaking_on_config(dwCurrentState, dwStartType, fault, code, started) ==
    CASE fault = "scm" ->
            [result |-> Ok(requires_admin(OperationResult_failure(
                            Msg("Failed to open Service Control Manager. Administrator rights required.", <<>>)))),
             calls |-> <<OpenScm("SC_MANAGER_ALL_ACCESS", FALSE)>>,
             start |-> NoneV,
             state |-> dwCurrentState, startType |-> dwStartType]
      [] fault = "service" ->
            [result |-> Ok(requires_admin(OperationResult_failure(
                            Msg("Failed to open the SysMain service. Administrator rights required.", <<>>)))),
             calls |-> <<OpenScm("SC_MANAGER_ALL_ACCESS", TRUE),
                         OpenSvc("SERVICE_CHANGE_CONFIG | SERVICE_START", FALSE),
                         CloseHandle("scm")>>,
             start |-> NoneV,
             state |-> dwCurrentState, startType |-> dwStartType]
      [] fault = "config" ->
            [result |-> Ok(OperationResult_failure(
                            Msg("Failed to change the service startup type: {}", <<>>))),
             calls |-> <<OpenScm("SC_MANAGER_ALL_ACCESS", TRUE),
                         OpenSvc("SERVICE_CHANGE_CONFIG | SERVICE_START", TRUE),
                         Call("ChangeServiceConfigW", "SERVICE_AUTO_START", FALSE)>>,
             start |-> NoneV,
             state |-> dwCurrentState, startType |-> dwStartType]
      [] OTHER ->
            [result |-> IF start_service(code)
                        THEN Ok(OperationResult_success(
                                 Msg("SysMain service enabled and started!", <<>>)))
                        ELSE Ok(OperationResult_failure(Msg("Failed to start the service: {}", <<>>))),
             calls |-> <<OpenScm("SC_MANAGER_ALL_ACCESS", TRUE),
                         OpenSvc("SERVICE_CHANGE_CONFIG | SERVICE_START", TRUE),
                         Call("ChangeServiceConfigW", "SERVICE_AUTO_START", TRUE),
                         Call("StartServiceW", "service", code = 0),
                         CloseHandle("service"), CloseHandle("scm")>>,
             start |-> <<[code |-> code, returned_ok |-> start_service(code)]>>,
             state |-> IF code = 0 THEN started ELSE dwCurrentState,
             startType |-> "SERVICE_AUTO_START"]

enable_sysmain(dwCurrentState, dwStartType, fault, code, started) ==
    CASE fault = "scm" ->
            [result |-> Ok(requires_admin(OperationResult_failure(
                            Msg("Failed to open Service Control Manager. Administrator rights required.", <<>>)))),
             calls |-> <<OpenScm("SC_MANAGER_ALL_ACCESS", FALSE)>>,
             start |-> NoneV,
             state |-> dwCurrentState, startType |-> dwStartType]
      [] fault = "service" ->
            [result |-> Ok(requires_admin(OperationResult_failure(
                            Msg("Failed to open the SysMain service. Administrator rights required.", <<>>)))),
             calls |-> <<OpenScm("SC_MANAGER_ALL_ACCESS", TRUE),
                         OpenSvc("SERVICE_CHANGE_CONFIG | SERVICE_START", FALSE),
                         CloseHandle("scm")>>,
             start |-> NoneV,
             state |-> dwCurrentState, startType |-> dwStartType]
      [] fault = "config" ->
            [result |-> Ok(OperationResult_failure(
                            Msg("Failed to change the service startup type: {}", <<>>))),
             calls |-> <<OpenScm("SC_MANAGER_ALL_ACCESS", TRUE),
                         OpenSvc("SERVICE_CHANGE_CONFIG | SERVICE_START", TRUE),
                         Call("ChangeServiceConfigW", "SERVICE_AUTO_START", FALSE),
                         CloseHandle("service"), CloseHandle("scm")>>,
             start |-> NoneV,
             state |-> dwCurrentState, startType |-> dwStartType]
      [] OTHER ->
            [result |-> IF start_service(code)
                        THEN Ok(OperationResult_success(
                                 Msg("SysMain service enabled and started!", <<>>)))
                        ELSE Ok(OperationResult_failure(Msg("Failed to start the service: {}", <<>>))),
             calls |-> <<OpenScm("SC_MANAGER_ALL_ACCESS", TRUE),
                         OpenSvc("SERVICE_CHANGE_CONFIG | SERVICE_START", TRUE),
                         Call("ChangeServiceConfigW", "SERVICE_AUTO_START", TRUE),
                         Call("StartServiceW", "service", code = 0),
                         CloseHandle("service"), CloseHandle("scm")>>,
             start |-> <<[code |-> code, returned_ok |-> start_service(code)]>>,
             state |-> IF code = 0 THEN started ELSE dwCurrentState,
             startType |-> "SERVICE_AUTO_START"]

\* What the SCM does to the calls of one enable attempt: the first call that
\* fails and, when StartServiceW is reached, its error code and the state a
\* started service is left in.
EnableOs(dwCurrentState) ==
    {[fault |-> f, code |-> 0, started |-> dwCurrentState] : f \in EnableFaults \ {"none"}}
    \cup {[fault |-> "none", code |-> c, started |-> s] :
            c \in StartServiceW_codes(dwCurrentState) \ {0}, s \in {dwCurrentState}}
    \cup {[fault |-> "none", code |-> 0, started |-> s] :
            s \in IF 0 \in StartServiceW_codes(dwCurrentState) THEN StartedStates ELSE {}}

-----------------------------------------------------------------------------
(* src/repositories/windows_service.rs and src/services/prefetch.rs        *)

\* windows_service::start_service: the StartServiceW result is discarded
windows_service_start_service(code) == TRUE

\* enable going on to StartServiceW after a failed ChangeServiceConfigW.
prefetch_enable_ignoring_config_failure(dwCurrentState, dwStartType, os) ==
    CASE os.fault = "scm" ->
            [result |-> Err("Service: Failed to open SCM"),
             calls |-> <<OpenScm("SC_MANAGER_CONNECT", FALSE)>>,
             start |-> NoneV,
             state |-> dwCurrentState, startType |-> dwStartType]
      [] os.fault = "service" ->
            [result |-> Err("Service: Failed to open service SysMain"),
             calls |-> <<OpenScm("SC_MANAGER_CONNECT", TRUE),
                         OpenSvc("SERVICE_CHANGE_CONFIG | SERVICE_START", FALSE),
                         CloseHandle("scm")>>,
             start |-> NoneV,
             state |-> dwCurrentState, startType |-> dwStartType]
      [] os.fault = "config" ->
            [result |-> Ok(OperationResult_success(Msg("Service enabled and started", <<>>))),
             calls |-> <<OpenScm("SC_MANAGER_CONNECT", TRUE),
                         OpenSvc("SERVICE_CHANGE_CONFIG | SERVICE_START", TRUE),
                         Call("ChangeServiceConfigW", "SERVICE_AUTO_START", FALSE),
                         Call("StartServiceW", "service", FALSE),
                         CloseHandle("service"), CloseHandle("scm")>>,
             start |-> <<[code |-> 5, returned_ok |-> TRUE]>>,
             state |-> dwCurrentState, startType |-> dwStartType]
      [] OTHER ->
            [result |-> Ok(OperationResult_success(Msg("Service enabled and started", <<>>))),
             calls |-> <<OpenScm("SC_MANAGER_CONNECT", TRUE),
                         OpenSvc("SERVICE_CHANGE_CONFIG | SERVICE_START", TRUE),
                         Call("ChangeServiceConfigW", "SERVICE_AUTO_START", TRUE),
                         Call("StartServiceW", "service", os.code = 0),
                         CloseHandle("service"), CloseHandle("scm")>>,
             start |-> <<[code |-> os.code,
                          returned_ok |-> windows_service_start_service(os.code)]>>,
             state |-> IF os.code = 0 THEN os.started ELSE dwCurrentState,
             startType |-> "SERVICE_AUTO_START"]

\* services::prefetch::enable.  Handles are ServiceHandle values, closed by
\* Drop in reverse order of declaration.
prefetch_enable(dwCurrentState, dwStartType, os) ==
    CASE os.fault = "scm" ->
            [result |-> Err("Service: Failed to open SCM"),
             calls |-> <<OpenScm("SC_MANAGER_CONNECT", FALSE)>>,
             start |-> NoneV,
             state |-> dwCurrentState, startType |-> dwStartType]
      [] os.fault = "service" ->
            [result |-> Err("Service: Failed to open service SysMain"),
             calls |-> <<OpenScm("SC_MANAGER_CONNECT", TRUE),
                         OpenSvc("SERVICE_CHANGE_CONFIG | SERVICE_START", FALSE),
                         CloseHandle("scm")>>,
             start |-> NoneV,
             state |-> dwCurrentState, startType |-> dwStartType]
      [] os.fault = "config" ->
            [result |-> Err("Service: ChangeServiceConfigW failed"),
             calls |-> <<OpenScm("SC_MANAGER_CONNECT", TRUE),
                         OpenSvc("SERVICE_CHANGE_CONFIG | SERVICE_START", TRUE),
                         Call("ChangeServiceConfigW", "SERVICE_AUTO_START", FALSE),
                         CloseHandle("service"), CloseHandle("scm")>>,
             start |-> NoneV,
             state |-> dwCurrentState, startType |-> dwStartType]
      [] OTHER ->
            [result |-> Ok(OperationResult_success(Msg("Service enabled and started", <<>>))),
             calls |-> <<OpenScm("SC_MANAGER_CONNECT", TRUE),
                         OpenSvc("SERVICE_CHANGE_CONFIG | SERVICE_START", TRUE),
                         Call("ChangeServiceConfigW", "SERVICE_AUTO_START", TRUE),
                         Call("StartServiceW", "service", os.code = 0),
                         CloseHandle("service"), CloseHandle("scm")>>,
             start |-> <<[code |-> os.code,
                          returned_ok |-> windows_service_start_service(os.code)]>>,
             state |-> IF os.code = 0 THEN os.started ELSE dwCurrentState,
             startType |-> "SERVICE_AUTO_START"]

-----------------------------------------------------------------------------
(* src/app.rs, src/main.rs, src/service.rs: the SysMain enable entry points *)

\* An entry point that returns before any SCM call.
NoCalls(result, dwCurrentState, dwStartType) ==
    [result |-> result, calls |-> <<>>, start |-> NoneV, info |-> NoneV,
     state |-> dwCurrentState, startType |-> dwStartType]

\* app::enable_sysmain_async without the is_fully_enabled early return.
app_enable_sysmain_always(isAdmin, reg, dwCurrentState, dwStartType, envSet, dir, statusFault, startupFault, os) ==
    IF ~isAdmin
    THEN NoCalls(Ok(requires_admin(OperationResult_failure(
                   Msg("Administrator rights are required to enable the Prefetch service!", <<>>)))),
                 dwCurrentState, dwStartType)
    ELSE LET gi == get_sysmain_info(reg, dwCurrentState, dwStartType, envSet, dir,
                                    statusFault, startupFault)
         IN IF ~gi.result.ok
            THEN [NoCalls(gi.result, dwCurrentState, dwStartType) EXCEPT !.calls = gi.calls]
            ELSE LET e == enable_sysmain(dwCurrentState, dwStartType,
                                         os.fault, os.code, os.started)
                 IN [result |-> e.result, calls |-> gi.calls \o e.calls,
                     start |-> e.start, info |-> <<gi.result.value>>,
                     state |-> e.state, startType |-> e.startType]

\* app::enable_sysmain_async
app_enable_sysmain_async(isAdmin, reg, dwCurrentState, dwStartType, envSet, dir, statusFault, startupFault, os) ==
    IF ~isAdmin
    THEN NoCalls(Ok(requires_admin(OperationResult_failure(
                   Msg("Administrator rights are required to enable the Prefetch service!", <<>>)))),
                 dwCurrentState, dwStartType)
    ELSE LET gi == get_sysmain_info(reg, dwCurrentState, dwStartType, envSet, dir,
                                    statusFault, startupFault)
         IN IF ~gi.result.ok
            THEN [NoCalls(gi.result, dwCurrentState, dwStartType) EXCEPT !.calls = gi.calls]
            ELSE IF is_fully_enabled(gi.result.value)
            THEN [NoCalls(Ok(OperationResult_success(
                            Msg("Prefetch service is already enabled and running!", <<>>))),
                          dwCurrentState, dwStartType)
                    EXCEPT !.calls = gi.calls, !.info = <<gi.result.value>>]
            ELSE LET e == enable_sysmain(dwCurrentState, dwStartType,
                                         os.fault, os.code, os.started)
                 IN [result |-> e.result, calls |-> gi.calls \o e.calls,
                     start |-> e.start, info |-> <<gi.result.value>>,
                     state |-> e.state, startType |-> e.startType]

\* The (status, startup type) pair main.rs and service.rs query before enabling.
status_and_startup(dwCurrentState, dwStartType, statusFault, startupFault) ==
    LET st == get_sysmain_status(dwCurrentState, statusFault)
        su == get_sysmain_startup_type(dwStartType, startupFault)
    IN [service_status |-> st.value, startup_type |-> su.value,
        calls |-> st.calls \o su.calls]

\* main::enable_sysmain_async: Result<String, String>
main_enable_sysmain_async(isAdmin, dwCurrentState, dwStartType, statusFault, startupFault, os) ==
    IF ~isAdmin
    THEN NoCalls(Err("Administrator rights are required to enable the Prefetch service!"),
                 dwCurrentState, dwStartType)
    ELSE LET q == status_and_startup(dwCurrentState, dwStartType, statusFault, startupFault)
             snap == <<[service_status |-> q.service_status, startup_type |-> q.startup_type]>>
         IN IF q.service_status = "Running" /\ q.startup_type = "Automatic"
            THEN [NoCalls(Ok("Prefetch service is already enabled and running!"),
                          dwCurrentState, dwStartType)
                    EXCEPT !.calls = q.calls, !.info = snap]
            ELSE LET e == enable_sysmain(dwCurrentState, dwStartType,
                                         os.fault, os.code, os.started)
                 IN [result |-> Ok("Prefetch service enabled and started!"),
                     calls |-> q.calls \o e.calls,
                     start |-> e.start, info |-> snap,
                     state |-> e.state, startType |-> e.startType]

\* service::enable_sysmain reporting an already enabled service as Ok(()).
service_enable_sysmain_ok_when_enabled(isAdmin, dwCurrentState, dwStartType, statusFault, startupFault, os) ==
    IF ~isAdmin
    THEN NoCalls(Err("SysMainRequiresAdmin"), dwCurrentState, dwStartType)
    ELSE LET q == status_and_startup(dwCurrentState, dwStartType, statusFault, startupFault)
             snap == <<[service_status |-> q.service_status, startup_type |-> q.startup_type]>>
         IN IF q.service_status = "Running" /\ q.startup_type = "Automatic"
            THEN [NoCalls(Ok("()"), dwCurrentState, dwStartType)
                    EXCEPT !.calls = q.calls, !.info = snap]
            ELSE LET e == enable_sysmain(dwCurrentState, dwStartType,
                                         os.fault, os.code, os.started)
                 IN [result |-> Ok("()"),
                     calls |-> q.calls \o e.calls,
                     start |-> e.start, info |-> snap,
                     state |-> e.state, startType |-> e.startType]

\* service::enable_sysmain: Result<(), RecentEnablerError>
service_enable_sysmain(isAdmin, dwCurrentState, dwStartType, statusFault, startupFault, os) ==
    IF ~isAdmin
    THEN NoCalls(Err("SysMainRequiresAdmin"), dwCurrentState, dwStartType)
    ELSE LET q == status_and_startup(dwCurrentState, dwStartType, statusFault, startupFault)
             snap == <<[service_status |-> q.service_status, startup_type |-> q.startup_type]>>
         IN IF q.service_status = "Running" /\ q.startup_type = "Automatic"
            THEN [NoCalls(Err("SysMainAlreadyEnabled"), dwCurrentState, dwStartType)
                    EXCEPT !.calls = q.calls, !.info = snap]
            ELSE LET e == enable_sysmain(dwCurrentState, dwStartType,
                                         os.fault, os.code, os.started)
                 IN [result |-> Ok("()"),
                     calls |-> q.calls \o e.calls,
                     start |-> e.start, info |-> snap,
                     state |-> e.state, startType |-> e.startType]

-----------------------------------------------------------------------------
(* Environment of the SysMain operations                                   *)

\* Largest raw EnablePrefetcher value; 4 and above are PrefetcherMode::Unknown.
MaxPrefetcherValue == 4

NativeStates ==
    {"SERVICE_STOPPED", "SERVICE_START_PENDING", "SERVICE_STOP_PENDING", "SERVICE_RUNNING",
     "SERVICE_CONTINUE_PENDING", "SERVICE_PAUSED"}
NativeStartTypes ==
    {"SERVICE_BOOT_START", "SERVICE_AUTO_START", "SERVICE_DEMAND_START", "SERVICE_DISABLED"}

\* The enabled registry with the given EnablePrefetcher value.
HklmWithPrefetcher(v) == (<<PREFETCH_PARAMS_KEY, "EnablePrefetcher">> :> v) @@ EnabledHklm

InitSysMain ==
    /\ admin \in BOOLEAN
    /\ hkcu = EnabledHkcu
    /\ \E keyExists \in BOOLEAN :
         /\ hklmKeys = IF keyExists THEN EnabledKeys ELSE EnabledKeys \ {PREFETCH_PARAMS_KEY}
         /\ hklm \in {HklmWithPrefetcher(v) :
                        v \in IF keyExists
                              THEN {NoneV} \cup {Some(n) : n \in 0..MaxPrefetcherValue}
                              ELSE {NoneV}}
    /\ svcState \in NativeStates
    /\ svcStart \in NativeStartTypes
    /\ winDirSet \in BOOLEAN
    /\ prefetchDir \in {EmptyDir, DeniedDir}
    /\ last = NoOp
    /\ WindowClosed

-----------------------------------------------------------------------------
(* Operations on SysMain                                                   *)

\* What an enable entry point leaves behind.
EnableOutcome(name, r) ==
    /\ Idle
    /\ svcState' = r.state
    /\ svcStart' = r.startType
    /\ last' = [op |-> name, calls |-> r.calls, start |-> r.start,
                info |-> r.info, result |-> r.result]
    /\ UNCHANGED <<admin, regVars, fsVars, guiVars>>

\* app::enable_sysmain_async()
AppEnableSysMain ==
    \E statusFault \in QueryFaults, startupFault \in QueryFaults, os \in EnableOs(svcState) :
        EnableOutcome("app::enable_sysmain_async",
            app_enable_sysmain_async(admin, Registry, svcState, svcStart, winDirSet,
                                     prefetchDir, statusFault, startupFault, os))

\* main::enable_sysmain_async()
MainEnableSysMain ==
    \E statusFault \in QueryFaults, startupFault \in QueryFaults, os \in EnableOs(svcState) :
        EnableOutcome("main::enable_sysmain_async",
            main_enable_sysmain_async(admin, svcState, svcStart,
                                      statusFault, startupFault, os))

\* service::enable_sysmain()
ServiceEnableSysMain ==
    \E statusFault \in QueryFaults, startupFault \in QueryFaults, os \in EnableOs(svcState) :
        EnableOutcome("service::enable_sysmain",
            service_enable_sysmain(admin, svcState, svcStart,
                                   statusFault, startupFault, os))

\* sysmain::get_sysmain_status()
GetSysMainStatus ==
    /\ Idle
    /\ \E fault \in QueryFaults :
         LET r == get_sysmain_status(svcState, fault) IN
         last' = [op |-> "get_sysmain_status", calls |-> r.calls, fault |-> fault,
                  result |-> Ok(r.value)]
    /\ UNCHANGED <<admin, regVars, svcVars, fsVars, guiVars>>

\* sysmain::get_sysmain_startup_type()
GetSysMainStartupType ==
    /\ Idle
    /\ \E fault \in QueryFaults :
         LET r == get_sysmain_startup_type(svcStart, fault) IN
         last' = [op |-> "get_sysmain_startup_type", calls |-> r.calls, fault |-> fault,
                  result |-> Ok(r.value)]
    /\ UNCHANGED <<admin, regVars, svcVars, fsVars, guiVars>>

\* sysmain::get_prefetcher_mode()
GetPrefetcherMode ==
    /\ Idle
    /\ last' = [op |-> "get_prefetcher_mode", calls |-> <<>>,
                result |-> Ok(get_prefetcher_mode(Registry))]
    /\ UNCHANGED <<admin, regVars, svcVars, fsVars, guiVars>>

\* services::prefetch::enable()
PrefetchEnable ==
    \E os \in EnableOs(svcState) :
        EnableOutcome("services::prefetch::enable",
            [info |-> NoneV] @@ prefetch_enable(svcState, svcStart, os))

-----------------------------------------------------------------------------
(* src/system_restore.rs                                                   *)

\* How a spawned PowerShell command ends: exit status 0, a non-zero exit
\* status, or the process could not be started.
PsOutcomes == {"ok", "failed", "not_spawned"}

Powershell(command, outcome) == Call("powershell", command, outcome = "ok")
WriteHklm(value_name, ok) == Call("write_hklm", value_name, ok)

\* What a successful Enable-ComputerRestore (or SystemRestore.Enable through
\* WMI) leaves in the registry values the detection code reads: the
\* SystemRestore key with RPSessionInterval = 1.
os_enable_restore(reg) ==
    [reg EXCEPT !.hklm = (<<SYSTEM_RESTORE_KEY, "RPSessionInterval">> :> Some(1)) @@ @,
                !.keys = @ \cup {SYSTEM_RESTORE_KEY}]

\* What a successful Disable-ComputerRestore leaves in the registry:
\* RPSessionInterval = 0 under the SystemRestore key.
os_disable_restore(reg) ==
    [reg EXCEPT !.hklm = (<<SYSTEM_RESTORE_KEY, "RPSessionInterval">> :> Some(0)) @@ @,
                !.keys = @ \cup {SYSTEM_RESTORE_KEY}]

\* system_restore::is_system_restore_globally_enabled
is_system_restore_globally_enabled(reg) ==
    IF SYSTEM_RESTORE_KEY \in reg.keys
    THEN LET disabled == unwrap_or(reg.hklm[<<SYSTEM_RESTORE_KEY, "DisableSR">>], 0)
             rp_session == unwrap_or(reg.hklm[<<SYSTEM_RESTORE_KEY, "RPSessionInterval">>], 0)
         IN IF disabled = 1 THEN FALSE ELSE rp_session = 1
    ELSE FALSE

\* is_drive_protected_registry without the early return on the global flag.
is_drive_protected_registry_per_drive_only(reg) ==
    IF /\ CFG_C_KEY \in reg.keys
       /\ unwrap_or(reg.hklm[<<CFG_C_KEY, "DiskPercent">>], 0) > 0
    THEN TRUE
    ELSE IF VSS_C_KEY \in reg.keys THEN TRUE
    ELSE FALSE

\* system_restore::is_drive_protected_registry, for the drive "C:"
is_drive_protected_registry(reg) ==
    IF ~is_system_restore_globally_enabled(reg) THEN FALSE
    ELSE IF /\ CFG_C_KEY \in reg.keys
            /\ unwrap_or(reg.hklm[<<CFG_C_KEY, "DiskPercent">>], 0) > 0
         THEN TRUE
    ELSE IF VSS_C_KEY \in reg.keys THEN TRUE
    ELSE FALSE

\* system_restore::get_available_providers: the methods, in order
get_available_providers(psAvailable) ==
    IF psAvailable THEN <<"PowerShell", "RegistryOnly">> ELSE <<"RegistryOnly">>

\* .find(|m| m != RegistryOnly)
first_non_registry(methods) ==
    LET others == SelectSeq(methods, LAMBDA m : m # "RegistryOnly")
    IN IF others = <<>> THEN NoneV ELSE <<Head(others)>>

\* system_restore::get_detection_provider
get_detection_provider == "RegistryOnly"

\* get_enable_provider taking the first available provider, whatever its
\* method.
get_enable_provider_first(psAvailable) == <<Head(get_available_providers(psAvailable))>>

\* system_restore::get_enable_provider
get_enable_provider(psAvailable) == first_non_registry(get_available_providers(psAvailable))

\* system_restore::get_system_restore_info
get_system_restore_info(reg, psAvailable) ==
    LET available_methods == get_available_providers(psAvailable)
    IN [global_enabled |-> is_system_restore_globally_enabled(reg),
        drive_statuses |-> <<[drive |-> "C:",
                              is_enabled |-> is_drive_protected_registry(reg),
                              detection_method |-> get_detection_provider,
                              error_message |-> NoneV]>>,
        available_methods |-> available_methods,
        preferred_method |-> first_non_registry(available_methods)]

\* drive.trim_end_matches('\\').to_uppercase(), on the drive names in use
normalize_drive(drive) ==
    CASE drive \in {"C:", "c:", "C:\\", "c:\\"} -> "C:"
      [] drive \in {"D:", "d:", "D:\\", "d:\\"} -> "D:"
      [] OTHER -> drive

\* SystemRestoreInfo::get_drive_status (src/domain.rs)
get_drive_status(info, drive) ==
    LET found == SelectSeq(info.drive_statuses,
                           LAMBDA s : normalize_drive(s.drive) = normalize_drive(drive))
    IN IF found = <<>> THEN NoneV ELSE <<Head(found)>>

\* SystemRestoreInfo::is_c_drive_enabled (src/domain.rs)
is_c_drive_enabled(info) ==
    LET s == get_drive_status(info, "C:") IN
    IF s = NoneV THEN FALSE ELSE s[1].is_enabled

\* The drive argument as PowerShellProvider::enable normalises it.
drive_normalized(drive) ==
    CASE drive \in {"C:\\"} -> drive
      [] drive \in {"C:"}   -> drive \o "\\"
      [] OTHER              -> drive \o ":\\"

\* SystemRestoreProvider::enable of the provider with the given method: the
\* registry provider refuses, the PowerShell provider runs
\* Enable-ComputerRestore.
provider_enable(method, reg, drive, psEnable) ==
    IF method = "RegistryOnly"
    THEN [ok |-> FALSE, calls |-> <<>>, reg |-> reg]
    ELSE LET cmd == "Enable-ComputerRestore -Drive '" \o drive_normalized(drive) \o "'"
         IN [ok |-> psEnable = "ok", calls |-> <<Powershell(cmd, psEnable)>>,
             reg |-> IF psEnable = "ok" THEN os_enable_restore(reg) ELSE reg]

\* SystemRestoreProvider::disable
provider_disable(method, reg, drive, psDisable) ==
    IF method = "RegistryOnly"
    THEN [ok |-> FALSE, calls |-> <<>>, reg |-> reg]
    ELSE LET cmd == "Disable-ComputerRestore -Drive '" \o drive_normalized(drive) \o "'"
         IN [ok |-> psDisable = "ok", calls |-> <<Powershell(cmd, psDisable)>>,
             reg |-> IF psDisable = "ok" THEN os_disable_restore(reg) ELSE reg]

\* system_restore::enable_system_restore(drive).  psAvailable is the outcome
\* of the `exit 0` probe, psEnable that of Enable-ComputerRestore.
enable_system_restore(reg, drive, psAvailable, psEnable) ==
    LET probe == Powershell("exit 0", IF psAvailable THEN "ok" ELSE "failed")
        provider == get_enable_provider(psAvailable)
    IN IF provider = NoneV
       THEN [result |-> Ok(OperationResult_failure(
                            Msg("No method is available to enable System Restore", <<>>))),
             calls |-> <<probe>>, reg |-> reg, provider |-> provider]
       ELSE LET e == provider_enable(provider[1], reg, drive, psEnable) IN
            IF e.ok
            THEN [result |-> Ok(OperationResult_success(
                            Msg("System Restore enabled on drive {} (method: {})",
                                <<drive, provider[1]>>))),
                  calls |-> <<probe>> \o e.calls, reg |-> e.reg, provider |-> provider]
            ELSE [result |-> Ok(requires_admin(OperationResult_failure(
                            Msg("Failed to enable System Restore: {}", <<>>)))),
                  calls |-> <<probe>> \o e.calls, reg |-> e.reg, provider |-> provider]

\* system_restore::disable_system_restore(drive)
disable_system_restore(reg, drive, psAvailable, psDisable) ==
    LET probe == Powershell("exit 0", IF psAvailable THEN "ok" ELSE "failed")
        provider == get_enable_provider(psAvailable)
    IN IF provider = NoneV
       THEN [result |-> Ok(OperationResult_failure(
                            Msg("No method is available to disable System Restore", <<>>))),
             calls |-> <<probe>>, reg |-> reg, provider |-> provider]
       ELSE LET e == provider_disable(provider[1], reg, drive, psDisable) IN
            IF e.ok
            THEN [result |-> Ok(OperationResult_success(
                            Msg("System Restore disabled on drive {} (method: {})",
                                <<drive, provider[1]>>))),
                  calls |-> <<probe>> \o e.calls, reg |-> e.reg, provider |-> provider]
            ELSE [result |-> Ok(requires_admin(OperationResult_failure(
                            Msg("Failed to disable System Restore: {}", <<>>)))),
                  calls |-> <<probe>> \o e.calls, reg |-> e.reg, provider |-> provider]

\* system_restore::is_system_restore_enabled / get_system_restore_info_legacy
get_system_restore_info_legacy(reg, psAvailable) ==
    is_c_drive_enabled(get_system_restore_info(reg, psAvailable))

\* system_restore::enable_system_restore_legacy
enable_system_restore_legacy(reg, psAvailable, psEnable) ==
    LET e == enable_system_restore(reg, "C:", psAvailable, psEnable)
    IN [e EXCEPT !.result = IF e.result.value.success THEN Ok("()")
                            ELSE Err(e.result.value.message.fmt)]

-----------------------------------------------------------------------------
(* src/services/system_restore.rs                                          *)

DEFAULT_FREQUENCY_MINUTES == 1440

\* The frequency block writing the default whether or not a value exists.
ensure_default_frequency_overwriting(reg, denied) ==
    LET w == write_registry_dword(reg, "HKLM", SYSTEM_RESTORE_KEY,
                 "SystemRestorePointCreationFrequency", DEFAULT_FREQUENCY_MINUTES, denied)
    IN [reg |-> w.reg,
        calls |-> <<WriteHklm("SystemRestorePointCreationFrequency", w.ok)>>]

\* The block both success paths run: write the default frequency when the
\* value is absent, ignoring the outcome of the write.
ensure_default_frequency(reg, denied) ==
    IF read_hklm(reg, SYSTEM_RESTORE_KEY, "SystemRestorePointCreationFrequency") = NoneV
    THEN LET w == write_registry_dword(reg, "HKLM", SYSTEM_RESTORE_KEY,
                      "SystemRestorePointCreationFrequency", DEFAULT_FREQUENCY_MINUTES, denied)
         IN [reg |-> w.reg,
             calls |-> <<WriteHklm("SystemRestorePointCreationFrequency", w.ok)>>]
    ELSE [reg |-> reg, calls |-> <<>>]

\* services::system_restore::enable(drive).  wmi and psEnable are the outcomes
\* of the two PowerShell commands, denied the keys that cannot be written.
services_system_restore_enable(reg, drive, wmi, psEnable, denied) ==
    LET wmiCmd == "Invoke-WmiMethod -Namespace 'root\\default' -Class SystemRestore -Name Enable -ArgumentList '"
                  \o (IF drive \in {"C:\\"} THEN drive ELSE drive \o "\\") \o "'"
        psCmd == "Enable-ComputerRestore -Drive '" \o drive \o ":\\'"
        wmiCall == Powershell(wmiCmd, wmi)
    IN IF wmi = "ok"
       THEN LET f == ensure_default_frequency(os_enable_restore(reg), denied)
            IN [result |-> Ok(OperationResult_success(Msg("System Restore enabled via WMI", <<>>))),
                calls |-> <<wmiCall>> \o f.calls, reg |-> f.reg]
       ELSE LET w == write_registry_dword(reg, "HKLM", SYSTEM_RESTORE_KEY,
                                          "RPSessionInterval", 1, denied)
                wCall == WriteHklm("RPSessionInterval", w.ok)
            IN IF ~w.ok
               THEN [result |-> Err("Registry"), calls |-> <<wmiCall, wCall>>, reg |-> reg]
               ELSE IF psEnable = "not_spawned"
               THEN [result |-> Err("FileSystem"),
                     calls |-> <<wmiCall, wCall, Powershell(psCmd, psEnable)>>, reg |-> w.reg]
               ELSE IF psEnable = "ok"
               THEN LET f == ensure_default_frequency(os_enable_restore(w.reg), denied)
                    IN [result |-> Ok(OperationResult_success(Msg("System Restore enabled", <<>>))),
                        calls |-> <<wmiCall, wCall, Powershell(psCmd, psEnable)>> \o f.calls,
                        reg |-> f.reg]
               ELSE [result |-> Ok(OperationResult_success(
                                    Msg("System Restore enabled via registry", <<>>))),
                     calls |-> <<wmiCall, wCall, Powershell(psCmd, psEnable)>>, reg |-> w.reg]

-----------------------------------------------------------------------------
(* src/app.rs and src/service.rs: the System Restore enable entry points   *)

\* app::enable_system_restore_async
app_enable_system_restore_async(isAdmin, reg, psAvailable, psEnable) ==
    IF ~isAdmin
    THEN [result |-> Ok(requires_admin(OperationResult_failure(
                     Msg("Administrator rights are required to enable System Restore!", <<>>)))),
          calls |-> <<>>, reg |-> reg, provider |-> NoneV]
    ELSE enable_system_restore(reg, "C:", psAvailable, psEnable)

\* service::enable_system_restore: Result<(), RecentEnablerError>.  The
\* boolean status and the unit-returning enable it calls are the legacy
\* functions of system_restore.rs.
service_enable_system_restore(isAdmin, reg, psInfo, psAvailable, psEnable) ==
    IF ~isAdmin
    THEN [result |-> Err("SystemRestoreRequiresAdmin"), calls |-> <<>>, reg |-> reg,
          is_enabled |-> NoneV]
    ELSE LET enabled == get_system_restore_info_legacy(reg, psInfo)
             probe == Powershell("exit 0", IF psInfo THEN "ok" ELSE "failed")
         IN IF enabled
            THEN [result |-> Err("SystemRestoreAlreadyEnabled"), calls |-> <<probe>>,
                  reg |-> reg, is_enabled |-> <<enabled>>]
            ELSE LET e == enable_system_restore_legacy(reg, psAvailable, psEnable)
                 IN [result |-> e.result, calls |-> <<probe>> \o e.calls, reg |-> e.reg,
                     is_enabled |-> <<enabled>>]

-----------------------------------------------------------------------------
(* Environment of the System Restore operations                            *)

SrPaths ==
    { <<SYSTEM_RESTORE_KEY, "DisableSR">>, <<SYSTEM_RESTORE_KEY, "RPSessionInterval">>,
      <<SYSTEM_RESTORE_KEY, "SystemRestorePointCreationFrequency">>,
      <<CFG_C_KEY, "DiskPercent">> }

\* Every content of the System Restore keys: a value exists only under an
\* existing key, and the Cfg\C: key only under the SystemRestore key.
InitRestore ==
    /\ admin \in BOOLEAN
    /\ hkcu = EnabledHkcu
    /\ hklmKeys \in {k \cup {PREFETCH_PARAMS_KEY} :
                       k \in SUBSET {SYSTEM_RESTORE_KEY, CFG_C_KEY, VSS_C_KEY}}
    /\ CFG_C_KEY \in hklmKeys => SYSTEM_RESTORE_KEY \in hklmKeys
    /\ hklm \in {r @@ EnabledHklm : r \in [SrPaths -> OptDword]}
    /\ \A p \in SrPaths : hklm[p] # NoneV => p[1] \in hklmKeys
    /\ svcState = "SERVICE_RUNNING"
    /\ svcStart = "SERVICE_AUTO_START"
    /\ winDirSet = TRUE
    /\ prefetchDir = EmptyDir
    /\ last = NoOp
    /\ WindowClosed

SrWriteKeys == { <<"HKLM", SYSTEM_RESTORE_KEY>> }

-----------------------------------------------------------------------------
(* Operations on System Restore                                            *)

\* What a System Restore enable entry point leaves behind.
RestoreOutcome(name, r) ==
    /\ Idle
    /\ hklm' = r.reg.hklm
    /\ hklmKeys' = r.reg.keys
    /\ last' = [op |-> name, calls |-> r.calls, result |-> r.result]
    /\ UNCHANGED <<admin, hkcu, svcVars, fsVars, guiVars>>

\* app::enable_system_restore_async()
AppEnableSystemRestore ==
    \E psAvailable \in BOOLEAN, psEnable \in PsOutcomes :
        RestoreOutcome("app::enable_system_restore_async",
            app_enable_system_restore_async(admin, Registry, psAvailable, psEnable))

\* services::system_restore::enable("C:")
SvcRestoreEnable ==
    \E wmi \in PsOutcomes, psEnable \in PsOutcomes, denied \in DeniedSets(SrWriteKeys) :
        RestoreOutcome("services::system_restore::enable",
            services_system_restore_enable(Registry, "C:", wmi, psEnable, denied))

\* service::enable_system_restore()
ServiceEnableSystemRestore ==
    \E psInfo \in BOOLEAN, psAvailable \in BOOLEAN, psEnable \in PsOutcomes :
        LET r == service_enable_system_restore(admin, Registry, psInfo, psAvailable, psEnable)
        IN /\ Idle
           /\ hklm' = r.reg.hklm
           /\ hklmKeys' = r.reg.keys
           /\ last' = [op |-> "service::enable_system_restore", calls |-> r.calls,
                       is_enabled |-> r.is_enabled, result |-> r.result]
           /\ UNCHANGED <<admin, hkcu, svcVars, fsVars, guiVars>>

-----------------------------------------------------------------------------
(* The privileged enable operations, elevated or not                       *)

\* The SysMain states with a readable Prefetch folder and PrefetchParameters
\* key (neither is read by the service.rs entry points).
InitSysMainService ==
    /\ InitSysMain
    /\ winDirSet
    /\ prefetchDir = EmptyDir
    /\ PREFETCH_PARAMS_KEY \in hklmKeys

InitPrivileged == InitSysMainService \/ InitRestore

NextPrivileged ==
    \/ AppEnableSysMain
    \/ AppEnableSystemRestore
    \/ SvcRestoreEnable
    \/ Return

SpecPrivileged == InitPrivileged /\ [][NextPrivileged]_vars

-----------------------------------------------------------------------------
(* src/service.rs: the public enable functions of the three features       *)

\* The registry contents of the recent.rs catalog, the SysMain states and
\* the System Restore registry contents.
InitService ==
    \/ InitRecent /\ (\A p \in OnlySvcHkcu : hkcu[p] = NoneV)
                  /\ (\A p \in OnlySvcHklm : hklm[p] = NoneV)
    \/ InitSysMainService
    \/ InitRestore

NextService ==
    \/ ServiceEnableRecent
    \/ ServiceEnableSysMain
    \/ ServiceEnableSystemRestore
    \/ Return

SpecService == InitService /\ [][NextService]_vars

-----------------------------------------------------------------------------
(* SysMainInfo values and the pure functions over them                     *)

PrefetcherModes == {from_registry_value(v) : v \in 0..MaxPrefetcherValue}

SysMainInfos ==
    [service_status : ServiceStatus, startup_type : StartupType,
     prefetcher_mode : PrefetcherModes,
     superfetch_mode : {from_registry_value(3)},
     prefetch_info : {scan_prefetch_directory(d) : d \in {EmptyDir, DeniedDir, MissingDir, ErrorDir}}]

InitDomain ==
    /\ admin = FALSE
    /\ hkcu = EnabledHkcu
    /\ hklm = EnabledHklm
    /\ hklmKeys = EnabledKeys
    /\ svcState = "SERVICE_RUNNING"
    /\ svcStart = "SERVICE_AUTO_START"
    /\ winDirSet = TRUE
    /\ prefetchDir = EmptyDir
    /\ last = NoOp
    /\ WindowClosed

\* SysMainInfo::is_fully_enabled(&info)
IsFullyEnabled ==
    /\ Idle
    /\ \E info \in SysMainInfos :
         last' = [op |-> "SysMainInfo::is_fully_enabled", info |-> info,
                  result |-> is_fully_enabled(info)]
    /\ UNCHANGED <<admin, regVars, svcVars, fsVars, guiVars>>

\* SysMainInfo::get_issues(&info)
GetIssues ==
    /\ Idle
    /\ \E info \in SysMainInfos :
         last' = [op |-> "SysMainInfo::get_issues", info |-> info,
                  result |-> get_issues(info)]
    /\ UNCHANGED <<admin, regVars, svcVars, fsVars, guiVars>>

NextDomain ==
    \/ IsFullyEnabled
    \/ GetIssues
    \/ Return

SpecDomain == InitDomain /\ [][NextDomain]_vars

-----------------------------------------------------------------------------
(* src/repositories/file_system.rs and src/utils.rs: directory scans       *)

\* FileStats::default() / the DirectoryStats of a missing folder
FileStats_default == [count |-> 0, oldest |-> NoneV, newest |-> NoneV]

\* The closure of the fold: one more file, the minimum and the maximum.
fold_step(acc, time) ==
    [count  |-> acc.count + 1,
     oldest |-> Some(IF acc.oldest = NoneV THEN time
                     ELSE IF acc.oldest[1] < time THEN acc.oldest[1] ELSE time),
     newest |-> Some(IF acc.newest = NoneV THEN time
                     ELSE IF acc.newest[1] > time THEN acc.newest[1] ELSE time)]

RECURSIVE scan_folder_fold(_, _)
scan_folder_fold(times, acc) ==
    IF times = <<>> THEN acc
    ELSE scan_folder_fold(Tail(times), fold_step(acc, Head(times)))

\* repositories::file_system::scan_folder(path, extension): a missing folder
\* is Ok(default), a read_dir error is the error, and only the entries that
\* can be read, carry the extension and have a readable modification time
\* reach the fold.
scan_folder(dir, extension) ==
    CASE dir.kind = "missing" -> Ok(FileStats_default)
      [] dir.kind \in {"denied", "error"} -> Err("FileSystem")
      [] OTHER ->
            LET readable == SelectSeq(dir.entries, LAMBDA e : e.ok)
                matching == SelectSeq(readable,
                        LAMBDA e : e.ext # NoneV /\ eq_ignore_ascii_case(e.ext[1], extension))
                timed == SelectSeq(matching, LAMBDA e : e.modified # NoneV)
                times == [i \in DOMAIN timed |-> timed[i].modified[1]]
            IN Ok(scan_folder_fold(times, FileStats_default))

\* The for loop of utils::get_directory_stats: a regular file with the
\* extension is counted, then its modification time, when it can be read,
\* enters the minimum and the maximum.
RECURSIVE get_directory_stats_loop(_, _, _)
get_directory_stats_loop(entries, extension, acc) ==
    IF entries = <<>> THEN acc
    ELSE LET entry == Head(entries) IN
         IF entry.is_file /\ entry.ext # NoneV /\ eq_ignore_ascii_case(entry.ext[1], extension)
         THEN LET counted == [acc EXCEPT !.count = @ + 1] IN
              get_directory_stats_loop(Tail(entries), extension,
                  IF entry.modified # NoneV
                  THEN [fold_step(acc, entry.modified[1]) EXCEPT !.count = counted.count]
                  ELSE counted)
         ELSE get_directory_stats_loop(Tail(entries), extension, acc)

\* utils::get_directory_stats(path, extension)
get_directory_stats(dir, extension) ==
    CASE dir.kind = "missing" -> Ok(FileStats_default)
      [] dir.kind \in {"denied", "error"} -> Err("DirectoryReadFailed")
      [] OTHER ->
            Ok(get_directory_stats_loop(SelectSeq(dir.entries, LAMBDA e : e.ok),
                                        extension, FileStats_default))

-----------------------------------------------------------------------------
(* src/services/prefetch.rs: get_info                                      *)

\* windows_service::get_service_state / get_startup_mode
get_service_state(dwCurrentState) ==
    CASE dwCurrentState = "SERVICE_RUNNING" -> "Running"
      [] dwCurrentState = "SERVICE_STOPPED" -> "Stopped"
      [] OTHER                              -> "Unknown"
get_startup_mode(dwStartType) ==
    CASE dwStartType = "SERVICE_AUTO_START"   -> "Automatic"
      [] dwStartType = "SERVICE_DEMAND_START" -> "Manual"
      [] dwStartType = "SERVICE_DISABLED"     -> "Disabled"
      [] OTHER                                -> "Unknown"

\* What the SCM does to the calls of get_service_info: the open call that
\* fails, if any, and whether each of the two queries succeeds.
ServiceInfoOs ==
    {[open |-> o, stateOk |-> TRUE, configOk |-> TRUE] : o \in {"scm", "service"}}
    \cup [open : {"none"}, stateOk : BOOLEAN, configOk : BOOLEAN]

\* services::prefetch::get_service_info; the handles are closed when the
\* ServiceHandle values go out of scope, the service handle first.
get_service_info(dwCurrentState, dwStartType, os) ==
    CASE os.open = "scm" ->
            [state |-> "Unknown", mode |-> "Unknown",
             calls |-> <<OpenScm("SC_MANAGER_CONNECT", FALSE)>>]
      [] os.open = "service" ->
            [state |-> "Unknown", mode |-> "Unknown",
             calls |-> <<OpenScm("SC_MANAGER_CONNECT", TRUE),
                         OpenSvc("SERVICE_QUERY_STATUS | SERVICE_QUERY_CONFIG", FALSE),
                         CloseHandle("scm")>>]
      [] OTHER ->
            [state |-> IF os.stateOk THEN get_service_state(dwCurrentState) ELSE "Unknown",
             mode |-> IF os.configOk THEN get_startup_mode(dwStartType) ELSE "Unknown",
             calls |-> <<OpenScm("SC_MANAGER_CONNECT", TRUE),
                         OpenSvc("SERVICE_QUERY_STATUS | SERVICE_QUERY_CONFIG", TRUE),
                         Call("QueryServiceStatus", "service", os.stateOk),
                         Call("QueryServiceConfigW", "service", os.configOk),
                         CloseHandle("service"), CloseHandle("scm")>>]

\* get_info treating a failed scan as an empty folder, as
\* services::recent::get_info does with unwrap_or_else(FileStats::empty).
prefetch_get_info_errors_as_empty(envSet, dir, dwCurrentState, dwStartType, os) ==
    IF ~envSet THEN [result |-> Err("Other"), calls |-> <<>>]
    ELSE LET si == get_service_info(dwCurrentState, dwStartType, os)
             scan == scan_folder(dir, "pf")
         IN [calls |-> si.calls,
             result |-> Ok([files |-> IF scan.ok THEN scan.value ELSE FileStats_default,
                            accessible |-> TRUE,
                            error |-> NoneV,
                            service_state |-> si.state,
                            startup_mode |-> si.mode])]

\* services::prefetch::get_info
prefetch_get_info(envSet, dir, dwCurrentState, dwStartType, os) ==
    IF ~envSet THEN [result |-> Err("Other"), calls |-> <<>>]
    ELSE LET si == get_service_info(dwCurrentState, dwStartType, os)
             scan == scan_folder(dir, "pf")
         IN [calls |-> si.calls,
             result |-> Ok([files |-> IF scan.ok THEN scan.value ELSE FileStats_default,
                            accessible |-> scan.ok,
                            error |-> IF scan.ok THEN NoneV ELSE <<"Requires admin access">>,
                            service_state |-> si.state,
                            startup_mode |-> si.mode])]

-----------------------------------------------------------------------------
(* Environment of the directory scans                                      *)

\* A folder holds at most MaxEntries entries, with modification times in
\* 1..MaxTime.
MaxEntries == 2
MaxTime == 2

\* A directory entry: the DirEntry could not be read, or it has an extension
\* (or none), a modification time (or an unreadable one) and is a regular
\* file or not.
UnreadableEntry == [ok |-> FALSE, ext |-> NoneV, modified |-> NoneV, is_file |-> FALSE]
DirEntries ==
    {UnreadableEntry} \cup
    [ok : {TRUE}, ext : {NoneV, Some("pf"), Some("PF"), Some("txt")},
     modified : {NoneV} \cup {Some(t) : t \in 1..MaxTime}, is_file : BOOLEAN]

\* Every folder condition: missing, unreadable, or readable with any content.
Dirs ==
    {MissingDir, DeniedDir, ErrorDir} \cup
    {[kind |-> "ok", entries |-> es] :
        es \in UNION {[1..n -> DirEntries] : n \in 0..MaxEntries}}

\* Without SystemRoot and windir the path of the folder cannot be formed, and
\* no folder is looked at.
InitScan ==
    /\ admin = FALSE
    /\ hkcu = EnabledHkcu
    /\ hklm = EnabledHklm
    /\ hklmKeys = EnabledKeys
    /\ svcState = "SERVICE_RUNNING"
    /\ svcStart = "SERVICE_AUTO_START"
    /\ winDirSet \in BOOLEAN
    /\ prefetchDir \in (IF winDirSet THEN Dirs ELSE {EmptyDir})
    /\ last = NoOp
    /\ WindowClosed

\* file_system::scan_folder(<Prefetch>, "pf")
ScanFolder ==
    /\ Idle
    /\ last' = [op |-> "scan_folder", result |-> scan_folder(prefetchDir, "pf")]
    /\ UNCHANGED <<admin, regVars, svcVars, fsVars, guiVars>>

\* utils::get_directory_stats(<Prefetch>, "pf")
GetDirectoryStats ==
    /\ Idle
    /\ last' = [op |-> "get_directory_stats", result |-> get_directory_stats(prefetchDir, "pf")]
    /\ UNCHANGED <<admin, regVars, svcVars, fsVars, guiVars>>

\* sysmain::get_prefetch_info()
GetPrefetchInfo ==
    /\ Idle
    /\ last' = [op |-> "get_prefetch_info", result |-> get_prefetch_info(winDirSet, prefetchDir)]
    /\ UNCHANGED <<admin, regVars, svcVars, fsVars, guiVars>>

\* services::prefetch::get_info()
PrefetchGetInfo ==
    /\ Idle
    /\ \E os \in ServiceInfoOs :
         LET r == prefetch_get_info(winDirSet, prefetchDir, svcState, svcStart, os) IN
         last' = [op |-> "services::prefetch::get_info", calls |-> r.calls, os |-> os,
                  result |-> r.result]
    /\ UNCHANGED <<admin, regVars, svcVars, fsVars, guiVars>>

\* The directory scans, over every folder content.
NextScan ==
    \/ ScanFolder
    \/ GetDirectoryStats
    \/ GetPrefetchInfo
    \/ PrefetchGetInfo
    \/ Return

SpecScan == InitScan /\ [][NextScan]_vars

-----------------------------------------------------------------------------
(* Status and provider dispatch of System Restore                          *)

\* services::system_restore::check_registry
check_registry(reg) ==
    LET v == read_hklm(reg, SYSTEM_RESTORE_KEY, "RPSessionInterval")
    IN IF v = NoneV THEN FALSE ELSE v[1] = 1

\* services::system_restore::get_info
services_system_restore_get_info(reg) ==
    Ok([enabled |-> check_registry(reg), method |-> "Registry"])

\* system_restore::get_system_restore_info()
GetSystemRestoreInfo ==
    /\ Idle
    /\ \E psAvailable \in BOOLEAN :
          last' = [op |-> "get_system_restore_info", psAvailable |-> psAvailable,
                   global_enabled |-> get_system_restore_info(Registry, psAvailable).global_enabled,
                   result |-> Ok(get_system_restore_info(Registry, psAvailable))]
    /\ UNCHANGED <<admin, regVars, svcVars, fsVars, guiVars>>

\* services::system_restore::get_info()
SvcRestoreGetInfo ==
    /\ Idle
    /\ last' = [op |-> "services::system_restore::get_info",
                global_enabled |-> services_system_restore_get_info(Registry).value.enabled,
                result |-> services_system_restore_get_info(Registry)]
    /\ UNCHANGED <<admin, regVars, svcVars, fsVars, guiVars>>

\* What a provider-dispatching operation leaves behind.
DispatchOutcome(name, psAvailable, r) ==
    /\ Idle
    /\ hklm' = r.reg.hklm
    /\ hklmKeys' = r.reg.keys
    /\ last' = [op |-> name, psAvailable |-> psAvailable, provider |-> r.provider,
                calls |-> r.calls, result |-> r.result]
    /\ UNCHANGED <<admin, hkcu, svcVars, fsVars, guiVars>>

\* system_restore::enable_system_restore("C:")
EnableSystemRestore ==
    \E psAvailable \in BOOLEAN, psEnable \in PsOutcomes :
        DispatchOutcome("enable_system_restore", psAvailable,
            enable_system_restore(Registry, "C:", psAvailable, psEnable))

\* system_restore::disable_system_restore("C:")
DisableSystemRestore ==
    \E psAvailable \in BOOLEAN, psDisable \in PsOutcomes :
        DispatchOutcome("disable_system_restore", psAvailable,
            disable_system_restore(Registry, "C:", psAvailable, psDisable))

\* Status queries of System Restore, over every content of its keys.
NextRestoreStatus ==
    \/ GetSystemRestoreInfo
    \/ SvcRestoreGetInfo
    \/ Return

SpecRestoreStatus == InitRestore /\ [][NextRestoreStatus]_vars

\* The provider-dispatching operations of system_restore.rs.
NextRestoreProviders ==
    \/ GetSystemRestoreInfo
    \/ EnableSystemRestore
    \/ DisableSystemRestore
    \/ Return

SpecRestoreProviders == InitRestore /\ [][NextRestoreProviders]_vars

-----------------------------------------------------------------------------
(* The SysMain status queries and enable entry points of the GUI, the      *)
(* legacy GUI and the services layer, over every state of the service      *)

NextSysMain ==
    \/ AppEnableSysMain
    \/ MainEnableSysMain
    \/ PrefetchEnable
    \/ GetSysMainStatus
    \/ GetSysMainStartupType
    \/ GetPrefetcherMode
    \/ PrefetchGetInfo
    \/ Return

SpecSysMain == InitSysMain /\ [][NextSysMain]_vars

-----------------------------------------------------------------------------
(* The window: app::init and app::update                                   *)

\* The presses of Refresh and of the three Enable buttons a behaviour holds.
MaxPressed == 1

\* Task::perform(future, message): the future to run and the Message
\* constructor its output is wrapped in.
Task_perform(future, message) == [future |-> future, message |-> message]

CheckRecent == Task_perform("check_recent_async", "RecentChecked")
CheckSysMain == Task_perform("check_sysmain_async", "SysMainChecked")
CheckSystemRestore == Task_perform("check_system_restore_async", "SystemRestoreChecked")
EnableRecentTask == Task_perform("enable_recent_async", "RecentEnabled")
EnableSysMainTask == Task_perform("enable_sysmain_async", "SysMainEnabled")
EnableSystemRestoreTask == Task_perform("enable_system_restore_async", "SystemRestoreEnabled")

CheckTasks == {CheckRecent, CheckSysMain, CheckSystemRestore}
EnableTasks == {EnableRecentTask, EnableSysMainTask, EnableSystemRestoreTask}
AllTasks == CheckTasks \cup EnableTasks

\* Task::none() and Task::batch(..): the tasks an update hands to the runtime.
Task_none == <<>>
Task_batch(ts) == ts

\* State::new(): Default with is_admin read from the process token.
State_new(isAdmin) == [State_default EXCEPT !.is_admin = isAdmin]

\* The outputs a future can resolve to.  A check yields a snapshot of its
\* feature (RecentInfo, SysMainInfo, SystemRestoreInfo) or the error text of
\* map_err; an enable yields an OperationResult or an error text.
Snapshots(task) == {[info |-> task.future]}
ErrorTexts == {"access denied"}
OperationResults == {OperationResult_success(Msg("enabled", <<>>))}

Outputs(task) ==
    IF task \in CheckTasks
    THEN {Ok(i) : i \in Snapshots(task)} \cup {Err(e) : e \in ErrorTexts}
    ELSE {Ok(r) : r \in OperationResults} \cup {Err(e) : e \in ErrorTexts}

\* app::update returns the updated State, the Task handed to the runtime and
\* whether the process exited.
Updated(s, task) == [state |-> s, task |-> task, exit |-> FALSE]

\* The arms of the match in app::update, one operator per Message variant.
update_Refresh(s) ==
    Updated([s EXCEPT !.recent_loading = TRUE,
                      !.sysmain_loading = TRUE,
                      !.system_restore_loading = TRUE,
                      !.status_message = Msg("", <<>>)],
            Task_batch(<<CheckRecent, CheckSysMain, CheckSystemRestore>>))

update_EnableRecent(s) ==
    Updated([s EXCEPT !.recent_loading = TRUE], <<EnableRecentTask>>)

\* update_EnableSysMain, except that no task is returned.
update_EnableSysMain_without_task(s) ==
    Updated([s EXCEPT !.sysmain_loading = TRUE], Task_none)

update_EnableSysMain(s) ==
    Updated([s EXCEPT !.sysmain_loading = TRUE], <<EnableSysMainTask>>)

update_EnableSystemRestore(s) ==
    Updated([s EXCEPT !.system_restore_loading = TRUE], <<EnableSystemRestoreTask>>)

update_ToggleRecentDetails(s) ==
    Updated([s EXCEPT !.show_recent_details = ~s.show_recent_details], Task_none)

update_TogglePrefetchDetails(s) ==
    Updated([s EXCEPT !.show_prefetch_details = ~s.show_prefetch_details], Task_none)

\* explorer is spawned on the stored path when a snapshot is stored; the
\* State is left as it is either way.
update_OpenRecentFolder(s) == Updated(s, Task_none)

update_OpenPrefetchFolder(s) == Updated(s, Task_none)

\* current_exe is the outcome of std::env::current_exe(): on Ok an elevated
\* copy is started and the process exits.
update_RestartAsAdmin(s, current_exe) ==
    IF current_exe
    THEN [state |-> s, task |-> Task_none, exit |-> TRUE]
    ELSE Updated(s, Task_none)

update_RecentChecked(s, result) ==
    LET s1 == [s EXCEPT !.recent_loading = FALSE] IN
    IF result.ok
    THEN Updated([s1 EXCEPT !.recent_info = Some(result.value)], Task_none)
    ELSE Updated([s1 EXCEPT !.status_message = Msg("Error Recent: {}", <<result.error>>)],
                 Task_none)

\* update_SysMainChecked, except that a failed check also drops the stored
\* snapshot.
update_SysMainChecked_dropping_snapshot(s, result) ==
    LET s1 == [s EXCEPT !.sysmain_loading = FALSE] IN
    IF result.ok
    THEN Updated([s1 EXCEPT !.sysmain_info = Some(result.value)], Task_none)
    ELSE Updated([s1 EXCEPT !.sysmain_info = NoneV, !.status_message = Msg("Error Prefetch: {}", <<result.error>>)],
                 Task_none)

update_SysMainChecked(s, result) ==
    LET s1 == [s EXCEPT !.sysmain_loading = FALSE] IN
    IF result.ok
    THEN Updated([s1 EXCEPT !.sysmain_info = Some(result.value)], Task_none)
    ELSE Updated([s1 EXCEPT !.status_message = Msg("Error Prefetch: {}", <<result.error>>)],
                 Task_none)

update_SystemRestoreChecked(s, result) ==
    LET s1 == [s EXCEPT !.system_restore_loading = FALSE] IN
    IF result.ok
    THEN Updated([s1 EXCEPT !.system_restore_info = Some(result.value)], Task_none)
    ELSE Updated([s1 EXCEPT !.status_message = Msg("Error System Restore: {}", <<result.error>>)],
                 Task_none)

\* update_RecentEnabled, except that a failed enable also starts a check.
update_RecentEnabled_rechecking_on_error(s, result) ==
    LET s1 == [s EXCEPT !.recent_loading = FALSE] IN
    IF result.ok
    THEN Updated([s1 EXCEPT !.status_message = result.value.message], <<CheckRecent>>)
    ELSE Updated([s1 EXCEPT !.status_message = Msg("Error: {}", <<result.error>>)],
                 <<CheckRecent>>)

update_RecentEnabled(s, result) ==
    LET s1 == [s EXCEPT !.recent_loading = FALSE] IN
    IF result.ok
    THEN Updated([s1 EXCEPT !.status_message = result.value.message], <<CheckRecent>>)
    ELSE Updated([s1 EXCEPT !.status_message = Msg("Error: {}", <<result.error>>)],
                 Task_none)

update_SysMainEnabled(s, result) ==
    LET s1 == [s EXCEPT !.sysmain_loading = FALSE] IN
    IF result.ok
    THEN Updated([s1 EXCEPT !.status_message = result.value.message], <<CheckSysMain>>)
    ELSE Updated([s1 EXCEPT !.status_message = Msg("Error: {}", <<result.error>>)],
                 Task_none)

\* update_SystemRestoreEnabled, except that the loading flag is left as it is.
update_SystemRestoreEnabled_keeping_loading(s, result) ==
    LET s1 == s IN
    IF result.ok
    THEN Updated([s1 EXCEPT !.status_message = result.value.message], <<CheckSystemRestore>>)
    ELSE Updated([s1 EXCEPT !.status_message = Msg("Error: {}", <<result.error>>)],
                 Task_none)

update_SystemRestoreEnabled(s, result) ==
    LET s1 == [s EXCEPT !.system_restore_loading = FALSE] IN
    IF result.ok
    THEN Updated([s1 EXCEPT !.status_message = result.value.message], <<CheckSystemRestore>>)
    ELSE Updated([s1 EXCEPT !.status_message = Msg("Error: {}", <<result.error>>)],
                 Task_none)

\* app::update(state, message)
update(s, message, current_exe) ==
    LET tag == message.tag IN
    CASE tag = "Refresh" -> update_Refresh(s)
      [] tag = "EnableRecent" -> update_EnableRecent(s)
      [] tag = "EnableSysMain" -> update_EnableSysMain(s)
      [] tag = "EnableSystemRestore" -> update_EnableSystemRestore(s)
      [] tag = "ToggleRecentDetails" -> update_ToggleRecentDetails(s)
      [] tag = "TogglePrefetchDetails" -> update_TogglePrefetchDetails(s)
      [] tag = "OpenRecentFolder" -> update_OpenRecentFolder(s)
      [] tag = "OpenPrefetchFolder" -> update_OpenPrefetchFolder(s)
      [] tag = "RestartAsAdmin" -> update_RestartAsAdmin(s, current_exe)
      [] tag = "RecentChecked" -> update_RecentChecked(s, message.result)
      [] tag = "SysMainChecked" -> update_SysMainChecked(s, message.result)
      [] tag = "SystemRestoreChecked" -> update_SystemRestoreChecked(s, message.result)
      [] tag = "RecentEnabled" -> update_RecentEnabled(s, message.result)
      [] tag = "SysMainEnabled" -> update_SysMainEnabled(s, message.result)
      [] tag = "SystemRestoreEnabled" -> update_SystemRestoreEnabled(s, message.result)

\* The runtime's set of tasks in flight, as a count per task.
NoTasks == [t \in AllTasks |-> 0]

RECURSIVE Spawn(_, _)
Spawn(inFlight, task) ==
    IF task = <<>> THEN inFlight
    ELSE Spawn([inFlight EXCEPT ![Head(task)] = @ + 1], Tail(task))

\* app::init(): a fresh State and one check per feature.
InitGui ==
    /\ admin \in BOOLEAN
    /\ hkcu = EnabledHkcu
    /\ hklm = EnabledHklm
    /\ hklmKeys = EnabledKeys
    /\ svcState = "SERVICE_RUNNING"
    /\ svcStart = "SERVICE_AUTO_START"
    /\ winDirSet = TRUE
    /\ prefetchDir = EmptyDir
    /\ last = NoOp
    /\ running = TRUE
    /\ state = State_new(admin)
    /\ tasks = Spawn(NoTasks, Task_batch(<<CheckRecent, CheckSysMain, CheckSystemRestore>>))
    /\ pressed = 0

\* The runtime calls update with one message: the State is replaced, the
\* returned tasks are spawned, and exit(0) closes the window.
Dispatch(message, current_exe, inFlight) ==
    LET r == update(state, message, current_exe) IN
    /\ running
    /\ state' = r.state
    /\ tasks' = Spawn(inFlight, r.task)
    /\ running' = ~r.exit
    /\ last' = [op |-> "update", message |-> message, task |-> r.task]
    /\ UNCHANGED <<admin, regVars, svcVars, fsVars>>

\* A button press: the view sends its message.
Press(tag) ==
    /\ pressed < MaxPressed
    /\ pressed' = pressed + 1
    /\ Dispatch([tag |-> tag], TRUE, tasks)

Click(tag) ==
    /\ UNCHANGED pressed
    /\ Dispatch([tag |-> tag], TRUE, tasks)

\* A task in flight resolves and its output is delivered as a message.
Deliver(task) ==
    /\ tasks[task] > 0
    /\ UNCHANGED pressed
    /\ \E output \in Outputs(task) :
         Dispatch([tag |-> task.message, result |-> output], TRUE,
                  [tasks EXCEPT ![task] = @ - 1])

Message_Refresh == Press("Refresh")
Message_EnableRecent == Press("EnableRecent")
Message_EnableSysMain == Press("EnableSysMain")
Message_EnableSystemRestore == Press("EnableSystemRestore")
Message_ToggleRecentDetails == Click("ToggleRecentDetails")
Message_TogglePrefetchDetails == Click("TogglePrefetchDetails")
Message_OpenRecentFolder == Click("OpenRecentFolder")
Message_OpenPrefetchFolder == Click("OpenPrefetchFolder")
Message_RestartAsAdmin ==
    /\ UNCHANGED pressed
    /\ \E current_exe \in BOOLEAN :
         Dispatch([tag |-> "RestartAsAdmin"], current_exe, tasks)
Message_RecentChecked == Deliver(CheckRecent)
Message_SysMainChecked == Deliver(CheckSysMain)
Message_SystemRestoreChecked == Deliver(CheckSystemRestore)
Message_RecentEnabled == Deliver(EnableRecentTask)
Message_SysMainEnabled == Deliver(EnableSysMainTask)
Message_SystemRestoreEnabled == Deliver(EnableSystemRestoreTask)

Delivery ==
    \/ Message_RecentChecked
    \/ Message_SysMainChecked
    \/ Message_SystemRestoreChecked
    \/ Message_RecentEnabled
    \/ Message_SysMainEnabled
    \/ Message_SystemRestoreEnabled

NextGui ==
    \/ Message_Refresh
    \/ Message_EnableRecent
    \/ Message_EnableSysMain
    \/ Message_EnableSystemRestore
    \/ Message_ToggleRecentDetails
    \/ Message_TogglePrefetchDetails
    \/ Message_OpenRecentFolder
    \/ Message_OpenPrefetchFolder
    \/ Message_RestartAsAdmin
    \/ Message_RecentChecked
    \/ Message_SysMainChecked
    \/ Message_SystemRestoreChecked
    \/ Message_RecentEnabled
    \/ Message_SysMainEnabled
    \/ Message_SystemRestoreEnabled

SpecGui == InitGui /\ [][NextGui]_vars

\* The runtime polls every spawned future to completion and delivers its
\* output: while tasks are in flight, a delivery is not delayed for ever.
SpecGuiLive == InitGui /\ [][NextGui]_vars /\ WF_vars(Delivery)

-----------------------------------------------------------------------------
(* Claims on the status detection of Recent                                *)

\* The checks of the last status call, their pass/fail flag and name, in a
\* form common to both catalogs.
LastIsRecentStatus == last.op = "get_recent_status"
LastIsSvcGetInfo == last.op = "services::recent::get_info"
CheckPasses(c) ==
    IF LastIsRecentStatus THEN c.current_value = Some(c.expected_for_enabled)
                          ELSE c.actual = Some(c.expected)
CheckName(c) == IF LastIsRecentStatus THEN c.source ELSE c.name
LastKind ==
    IF LastIsRecentStatus
    THEN last.result.value.kind
    ELSE (IF last.result.value.status = "PolicyBlocked" THEN "DisabledByPolicy"
          ELSE last.result.value.status)
SomePolicyFails ==
    \E i \in DOMAIN last.checks : last.checks[i].is_policy /\ ~CheckPasses(last.checks[i])

\* Names of the checks that satisfy P, in catalog order.
RECURSIVE NamesWhere(_, _)
NamesWhere(cs, pass) ==
    IF cs = <<>> THEN <<>>
    ELSE (IF CheckPasses(Head(cs)) = pass THEN <<CheckName(Head(cs))>> ELSE <<>>)
         \o NamesWhere(Tail(cs), pass)

\* C1: policy-block precedence.  Whatever the non-policy checks read, a
\* policy check whose current value is not Some(expected) makes
\* get_recent_status return DisabledByPolicy and check_status PolicyBlocked.
C1_PolicyBlockPrecedence ==
    /\ (LastIsRecentStatus /\ SomePolicyFails) => last.result.value.kind = "DisabledByPolicy"
    /\ (LastIsSvcGetInfo /\ SomePolicyFails) => last.result.value.status = "PolicyBlocked"

\* A status call that met a failing policy check while every Important
\* check failed too (the case the severity test would otherwise claim).
C1_Witness ==
    /\ LastIsRecentStatus
    /\ SomePolicyFails
    /\ \A i \in DOMAIN last.checks :
          last.checks[i].severity = "Important" => ~CheckPasses(last.checks[i])
    /\ last.result.value.kind = "DisabledByPolicy"

\* C2: with no failing policy check, the status is FullyDisabled iff every
\* Important check fails; otherwise PartiallyEnabled iff some check fails,
\* its two lists being the passing / failing names in catalog order;
\* otherwise FullyEnabled.
C2_Classification ==
    ((LastIsRecentStatus \/ LastIsSvcGetInfo) /\ ~SomePolicyFails) =>
        LET cs == last.checks
            allImportantFail ==
                \A i \in DOMAIN cs : cs[i].severity = "Important" => ~CheckPasses(cs[i])
            someFails == \E i \in DOMAIN cs : ~CheckPasses(cs[i])
        IN  /\ LastKind = "FullyDisabled" <=> allImportantFail
            /\ LastKind = "PartiallyEnabled" <=> (~allImportantFail /\ someFails)
            /\ LastKind = "FullyEnabled" <=> ~someFails
            /\ LastKind \in {"FullyDisabled", "PartiallyEnabled", "FullyEnabled"}
            /\ (LastIsRecentStatus /\ LastKind = "PartiallyEnabled") =>
                  /\ last.result.value.enabled_features = NamesWhere(cs, TRUE)
                  /\ last.result.value.disabled_features = NamesWhere(cs, FALSE)

\* A services status call where one Important check fails and the other
\* passes, no policy check failing: PartiallyEnabled.
C2_Witness ==
    /\ LastIsSvcGetInfo
    /\ ~SomePolicyFails
    /\ ~CheckPasses(last.checks[1])
    /\ CheckPasses(last.checks[2])
    /\ last.result.value.status = "PartiallyEnabled"

\* C3: with Start_TrackDocs = 0, ShowRecent = 1, ShowFrequent = 1 and no
\* policy value present in either hive, get_recent_status returns
\* PartiallyEnabled whose disabled_features is the Start_TrackDocs check
\* alone ("Track documents") and whose enabled_features holds the other
\* checks of the scenario.  Stated as the claim; the code returns
\* DisabledByPolicy because an absent policy value is a blocking check.
NoPolicyValuePresent ==
    /\ hkcu[<<POLICY_KEY, "NoRecentDocsHistory">>] = NoneV
    /\ hkcu[<<POLICY_KEY, "ClearRecentDocsOnExit">>] = NoneV
    /\ hkcu[<<POLICY_KEY, "NoRecentDocsMenu">>] = NoneV
    /\ hklm[<<POLICY_KEY, "NoRecentDocsHistory">>] = NoneV
    /\ hklm[<<POLICY_KEY, "NoRecentDocsMenu">>] = NoneV

InSeq(x, sq) == \E i \in DOMAIN sq : sq[i] = x

C3_FreshCheckoutScenario ==
    ( /\ LastIsRecentStatus
      /\ hkcu[<<TRACK_DOCS_KEY, "Start_TrackDocs">>] = Some(0)
      /\ hkcu[<<EXPLORER_KEY, "ShowRecent">>] = Some(1)
      /\ hkcu[<<EXPLORER_KEY, "ShowFrequent">>] = Some(1)
      /\ NoPolicyValuePresent )
    => /\ last.result.value.kind = "PartiallyEnabled"
       /\ last.result.value.disabled_features = <<"Track documents">>
       /\ InSeq("Show recent items in Start", last.result.value.enabled_features)
       /\ InSeq("Show frequent items", last.result.value.enabled_features)

-----------------------------------------------------------------------------
(* Claims on SysMain                                                       *)

\* C4: SysMainInfo::is_fully_enabled is true iff the service status is
\* Running, the startup type is automatic and the prefetcher mode is enabled;
\* replacing any single one of the three values by a failing value makes the
\* aggregate false.
C4_IsFullyEnabledConjunction ==
    last.op = "SysMainInfo::is_fully_enabled" =>
        LET info == last.info IN
        /\ last.result <=> /\ info.service_status = "Running"
                           /\ info.startup_type \in {"Automatic", "AutomaticDelayed"}
                           /\ info.prefetcher_mode.mode # "Disabled"
        /\ \A s \in ServiceStatus \ {"Running"} :
              ~is_fully_enabled([info EXCEPT !.service_status = s])
        /\ \A t \in StartupType \ {"Automatic", "AutomaticDelayed"} :
              ~is_fully_enabled([info EXCEPT !.startup_type = t])
        /\ ~is_fully_enabled([info EXCEPT !.prefetcher_mode = from_registry_value(0)])

C4_Witness ==
    /\ last.op = "SysMainInfo::is_fully_enabled"
    /\ last.result
    /\ last.info.startup_type = "AutomaticDelayed"
    /\ last.info.prefetcher_mode.mode = "Unknown"

\* The calls that change the service.
IsMutatingCall(c) == c.api \in {"ChangeServiceConfigW", "StartServiceW"}
NoMutatingCall(calls) == \A i \in DOMAIN calls : ~IsMutatingCall(calls[i])

\* C5: when the process is elevated and the snapshot enable_sysmain_async
\* takes is fully enabled, it returns a successful OperationResult, calls
\* neither ChangeServiceConfig nor StartService, and leaves the service state
\* and startup type as they were (so repeating it changes nothing either).
C5_IdempotentEnable ==
    [][(/\ last'.op = "app::enable_sysmain_async"
        /\ admin
        /\ last'.info # NoneV
        /\ is_fully_enabled(last'.info[1]))
       => (/\ last'.result.ok
           /\ last'.result.value.success
           /\ NoMutatingCall(last'.calls)
           /\ svcState' = svcState
           /\ svcStart' = svcStart)]_vars

C5_Witness ==
    /\ last.op = "app::enable_sysmain_async"
    /\ admin
    /\ last.info # NoneV
    /\ is_fully_enabled(last.info[1])
    /\ last.result.ok
    /\ last.result.value.success
    /\ svcState = "SERVICE_RUNNING"
    /\ svcStart = "SERVICE_AUTO_START"

SysMainEnableOps ==
    {"app::enable_sysmain_async", "main::enable_sysmain_async", "services::prefetch::enable"}

\* Whether the result of an enable entry point is a success outcome.
EnableSucceeded(l) ==
    /\ l.result.ok
    /\ l.op \in {"app::enable_sysmain_async", "services::prefetch::enable"}
          => l.result.value.success

\* C6: whenever the service is Running with Automatic startup (and the entry
\* point, elevated, sees it so), whatever the prefetcher registry mode, the
\* SysMain enable operation returns success without calling
\* ChangeServiceConfig or StartService.
C6_ShortCircuitRunningAutomatic ==
    [][(/\ last'.op \in SysMainEnableOps
        /\ admin /\ winDirSet
        /\ svcState = "SERVICE_RUNNING" /\ svcStart = "SERVICE_AUTO_START"
        /\ last'.info # NoneV => /\ last'.info[1].service_status = "Running"
                                 /\ last'.info[1].startup_type = "Automatic")
       => (EnableSucceeded(last') /\ NoMutatingCall(last'.calls))]_vars

\* C8: start returns Ok when StartService succeeds or fails with
\* ERROR_SERVICE_ALREADY_RUNNING (1056), and an error for every other failure.
C8_StartResult ==
    (last.op \in SysMainEnableOps /\ last.start # NoneV)
    => (last.start[1].returned_ok
          <=> last.start[1].code \in {0, ERROR_SERVICE_ALREADY_RUNNING})

-----------------------------------------------------------------------------
(* Claims on the privileged enable operations                              *)

PrivilegedOps ==
    {"app::enable_sysmain_async", "app::enable_system_restore_async",
     "services::system_restore::enable"}

\* A call that needs elevation: the SCM opened with write access, a change
\* or start of the service, a provider enable through PowerShell, a write
\* under HKLM.
IsPrivilegedCall(c) ==
    \/ c.api = "OpenSCManagerW" /\ c.arg = "SC_MANAGER_ALL_ACCESS"
    \/ c.api \in {"ChangeServiceConfigW", "StartServiceW", "write_hklm"}
    \/ c.api = "powershell" /\ c.arg # "exit 0"

\* C7: when the process is not elevated, the SysMain enable and the System
\* Restore enable operations return an OperationResult with success = false
\* and requires_admin = true, and attempt no privileged call.
C7_EnableWithoutElevation ==
    (last.op \in PrivilegedOps /\ ~admin)
    => /\ last.result.ok
       /\ ~last.result.value.success
       /\ last.result.value.requires_admin
       /\ \A i \in DOMAIN last.calls : ~IsPrivilegedCall(last.calls[i])

-----------------------------------------------------------------------------
(* Claims on src/service.rs                                                *)

\* The feature is already enabled, as the service.rs function itself finds.
RecentAlreadyEnabled == last.op = "service::enable_recent" /\ ~last.is_disabled
SysMainAlreadyEnabled ==
    /\ last.op = "service::enable_sysmain"
    /\ last.info # NoneV
    /\ last.info[1].service_status = "Running"
    /\ last.info[1].startup_type = "Automatic"
SystemRestoreAlreadyEnabled ==
    last.op = "service::enable_system_restore" /\ last.is_enabled = <<TRUE>>

-----------------------------------------------------------------------------
(* Claims on the remediation of Recent                                     *)

\* Every check of the catalog the operation works on reads its expected value.
AllChecksPass(op) ==
    IF op = "enable_recent"
    THEN \A i \in DOMAIN get_all_recent_checks :
            is_enabled(read_registry_check(Registry, get_all_recent_checks[i]))
    ELSE \A i \in DOMAIN build_checks : is_ok(get_info_checks(Registry)[i])

\* C10: when every catalog check already reads its expected value, the Recent
\* enable operation returns a successful OperationResult and leaves every
\* registry value of both hives as it was.
C10_EnableOnPassingConfig ==
    [][(/\ last'.op \in {"enable_recent", "services::recent::enable"}
        /\ AllChecksPass(last'.op))
       => (/\ last'.result.ok
           /\ last'.result.value.success
           /\ hkcu' = hkcu
           /\ hklm' = hklm)]_vars

-----------------------------------------------------------------------------
(* Claims on the writes of the Recent enable operations                    *)

RecentEnableOps == {"enable_recent", "services::recent::enable"}

\* The (key, value) pairs of the policy checks of the catalog an operation
\* works on.
PolicyValues(op) ==
    IF op = "enable_recent"
    THEN {<<get_all_recent_checks[i].key_path, get_all_recent_checks[i].value_name>> :
             i \in {j \in DOMAIN get_all_recent_checks : get_all_recent_checks[j].is_policy}}
    ELSE {<<build_checks[i].key, build_checks[i].value>> :
             i \in {j \in DOMAIN build_checks : build_checks[j].is_policy}}

\* A logged write that targets a policy value under HKLM.
IsHklmPolicyWrite(op, w) ==
    w.hive = "HKLM" /\ <<w.key_path, w.value_name>> \in PolicyValues(op)

\* The checks of the catalog that are not HKLM policy checks, as
\* (key, value, expected) triples.
OtherChecks(op) ==
    IF op = "enable_recent"
    THEN {<<get_all_recent_checks[i].key_path, get_all_recent_checks[i].value_name,
            get_all_recent_checks[i].expected_for_enabled>> :
             i \in {j \in DOMAIN get_all_recent_checks :
                      ~(get_all_recent_checks[j].is_policy
                        /\ get_all_recent_checks[j].location = "HKLM")}}
    ELSE {<<build_checks[i].key, build_checks[i].value, build_checks[i].expected>> :
             i \in DOMAIN build_checks}

\* C11: the Recent enable operation attempts no write of a policy value under
\* HKLM, whatever the registry content, and attempts the write of the expected
\* value for every catalog check that is not an HKLM policy check.
C11_NoHklmPolicyWrite ==
    last.op \in RecentEnableOps =>
        /\ \A i \in DOMAIN last.writes : ~IsHklmPolicyWrite(last.op, last.writes[i])
        /\ \A c \in OtherChecks(last.op) :
              \E i \in DOMAIN last.writes :
                 /\ last.writes[i].key_path = c[1]
                 /\ last.writes[i].value_name = c[2]
                 /\ last.writes[i].value = c[3]

\* The counters a result message of enable_recent shows, by name.
ShownCounters(message) ==
    CASE message.fmt = "Enabled {} settings, {} blocked by policy, {} errors" ->
            [fixed_count |-> message.args[1], policy_blocked |-> message.args[2],
             failed_count |-> message.args[3]]
      [] message.fmt = "Enabled {} settings, {} errors" ->
            [fixed_count |-> message.args[1], failed_count |-> message.args[2]]
      [] message.fmt = "Successfully enabled {} Recent Files settings" ->
            [fixed_count |-> message.args[1]]

\* The indices of the HKLM policy checks of the recent.rs catalog.
HklmPolicyChecks ==
    {i \in DOMAIN get_all_recent_checks :
        get_all_recent_checks[i].is_policy /\ get_all_recent_checks[i].location = "HKLM"}

\* C12: after enable_recent, fixed_count + failed_count is the number of
\* catalog checks that are not HKLM policy checks, policy_blocked is the number
\* of HKLM policy checks whose value before the call was not the expected one,
\* every non-zero counter is shown in the result message, and the result is a
\* success iff policy_blocked = 0 and failed_count = 0.
C12_EnableRecentCounters ==
    [][last'.op = "enable_recent" =>
        LET l == last'
            shown == ShownCounters(l.result.value.message)
            counters == [fixed_count |-> l.fixed_count, failed_count |-> l.failed_count,
                         policy_blocked |-> l.policy_blocked]
        IN  /\ l.fixed_count + l.failed_count
                 = Cardinality(DOMAIN get_all_recent_checks \ HklmPolicyChecks)
            /\ l.policy_blocked
                 = Cardinality({i \in HklmPolicyChecks :
                      is_blocking(read_registry_check(Registry, get_all_recent_checks[i]))})
            /\ \A c \in DOMAIN counters :
                  counters[c] # 0 => c \in DOMAIN shown /\ shown[c] = counters[c]
            /\ l.result.ok
            /\ l.result.value.success <=> (l.policy_blocked = 0 /\ l.failed_count = 0)]_vars

\* enable_recent has met a blocking machine policy and a refused write, and
\* has written the other values.
C12_Witness ==
    /\ last.op = "enable_recent"
    /\ last.policy_blocked > 0
    /\ last.failed_count > 0
    /\ last.fixed_count > 0
    /\ ~last.result.value.success

\* Some registry write attempted by the last operation was refused.
SomeWriteFailed ==
    \/ /\ last.op \in RecentEnableOps
       /\ \E i \in DOMAIN last.writes : ~last.writes[i].ok
    \/ /\ last.op = "services::system_restore::enable"
       /\ \E i \in DOMAIN last.calls :
             last.calls[i].api = "write_hklm" /\ ~last.calls[i].ok

\* C13: an enable operation one of whose registry writes failed returns an
\* error or an OperationResult with success = false.
C13_FailedWritesSurface ==
    SomeWriteFailed => (~last.result.ok \/ ~last.result.value.success)

-----------------------------------------------------------------------------
(* Claims on the directory scans                                           *)

ScanOps == {"scan_folder", "get_directory_stats"}

\* The entries of the scanned folder that carry the extension.
MatchingEntries ==
    {i \in DOMAIN prefetchDir.entries :
        /\ prefetchDir.entries[i].ok
        /\ prefetchDir.entries[i].ext # NoneV
        /\ eq_ignore_ascii_case(prefetchDir.entries[i].ext[1], "pf")}

\* stats describes the set S of entries: their number, and the minimum and
\* maximum of their modification times.
DescribesSet(stats, S) ==
    /\ \A i \in S : prefetchDir.entries[i].modified # NoneV
    /\ stats.count = Cardinality(S)
    /\ LET times == {prefetchDir.entries[i].modified[1] : i \in S} IN
       IF S = {} THEN stats.oldest = NoneV /\ stats.newest = NoneV
       ELSE /\ stats.oldest = Some(CHOOSE t \in times : \A u \in times : t <= u)
            /\ stats.newest = Some(CHOOSE t \in times : \A u \in times : t >= u)

\* C14: for every folder content, the result of a scan has oldest <= newest
\* when both are present, has oldest and newest both None iff count = 0, and
\* its count, oldest and newest are the number, minimum and maximum
\* modification time of one set of matching files.
C14_FileStatsInvariant ==
    (last.op \in ScanOps /\ last.result.ok) =>
        LET stats == last.result.value IN
        /\ (stats.oldest # NoneV /\ stats.newest # NoneV) => stats.oldest[1] <= stats.newest[1]
        /\ (stats.oldest = NoneV /\ stats.newest = NoneV) <=> stats.count = 0
        /\ \E S \in SUBSET MatchingEntries : DescribesSet(stats, S)

-----------------------------------------------------------------------------
(* Claims on System Restore                                                *)

RestoreStatusOps == {"get_system_restore_info", "services::system_restore::get_info"}

\* C15: the global enabled flag a System Restore status query reports is true
\* iff the SystemRestore key can be read, DisableSR is not 1 and
\* RPSessionInterval is 1.
C15_GlobalEnabledFlag ==
    last.op \in RestoreStatusOps =>
        (last.global_enabled <=>
            /\ SYSTEM_RESTORE_KEY \in hklmKeys
            /\ hklm[<<SYSTEM_RESTORE_KEY, "DisableSR">>] # Some(1)
            /\ hklm[<<SYSTEM_RESTORE_KEY, "RPSessionInterval">>] = Some(1))

DispatchOps == {"enable_system_restore", "disable_system_restore"}

\* A call that changes the System Restore configuration.
IsRestoreMutation(c) ==
    c.api = "write_hklm" \/ (c.api = "powershell" /\ c.arg # "exit 0")

\* C16: enable_system_restore and disable_system_restore never dispatch to the
\* RegistryOnly provider: they use PowerShell, the first available provider
\* that is not RegistryOnly, when its probe succeeds, and otherwise return a
\* failed OperationResult and change nothing; get_system_restore_info detects
\* every drive with the RegistryOnly provider and has preferred_method = None
\* iff no provider other than RegistryOnly is available.
C16_ProviderSelection ==
    [][/\ last'.op \in DispatchOps =>
            /\ last'.provider # Some("RegistryOnly")
            /\ last'.provider = (IF last'.psAvailable THEN Some("PowerShell") ELSE NoneV)
            /\ last'.provider = NoneV =>
                  /\ last'.result.ok
                  /\ ~last'.result.value.success
                  /\ \A i \in DOMAIN last'.calls : ~IsRestoreMutation(last'.calls[i])
                  /\ hklm' = hklm
                  /\ hklmKeys' = hklmKeys
       /\ last'.op = "get_system_restore_info" =>
            LET info == last'.result.value IN
            /\ \A i \in DOMAIN info.drive_statuses :
                  info.drive_statuses[i].detection_method = "RegistryOnly"
            /\ info.preferred_method = NoneV <=> ~last'.psAvailable]_vars

\* enable_system_restore found no provider other than RegistryOnly and
\* returned a failure.
C16_Witness ==
    /\ last.op = "enable_system_restore"
    /\ ~last.psAvailable
    /\ last.provider = NoneV
    /\ ~last.result.value.success

-----------------------------------------------------------------------------
(* Claims on SysMainInfo::get_issues                                       *)

\* The condition a line of get_issues reports.
IssueTopic(line) ==
    CASE line.fmt = "SysMain service: {}" -> "service"
      [] line.fmt = "Startup type: {}" -> "startup"
      [] line.fmt = "Prefetcher: {}" -> "prefetcher"
      [] OTHER -> "folder"

\* The conditions in query order, and the ones that fail for info.
IssueOrder == <<"service", "startup", "prefetcher", "folder">>
Failing(info, topic) ==
    CASE topic = "service" -> ~is_running(info.service_status)
      [] topic = "startup" -> ~is_auto(info.startup_type)
      [] topic = "prefetcher" -> ~mode_is_enabled(info.prefetcher_mode)
      [] topic = "folder" -> ~info.prefetch_info.folder_accessible

\* C17: get_issues returns exactly one line for each failing condition among
\* service, startup type, prefetcher and folder accessibility, in that order,
\* and none for a condition that holds; it is empty iff is_fully_enabled holds
\* and the folder is accessible.
C17_IssuesPerFailingCondition ==
    last.op = "SysMainInfo::get_issues" =>
        LET info == last.info
            topics == [i \in DOMAIN last.result |-> IssueTopic(last.result[i])]
        IN  /\ topics = SelectSeq(IssueOrder, LAMBDA t : Failing(info, t))
            /\ last.result = <<>> <=>
                  (is_fully_enabled(info) /\ info.prefetch_info.folder_accessible)

\* get_issues on a stopped, manually started service with the prefetcher
\* disabled and the folder unreadable: four lines.
C17_Witness ==
    /\ last.op = "SysMainInfo::get_issues"
    /\ last.info.service_status = "Stopped"
    /\ last.info.startup_type = "Manual"
    /\ ~mode_is_enabled(last.info.prefetcher_mode)
    /\ ~last.info.prefetch_info.folder_accessible
    /\ Len(last.result) = 4

-----------------------------------------------------------------------------
(* Claims on the service handles                                           *)

\* The handle a successful open call returns, by name.
OpenedHandle(c) ==
    CASE c.api = "OpenSCManagerW" /\ c.ok -> <<"scm">>
      [] c.api = "OpenServiceW" /\ c.ok -> <<"service">>
      [] OTHER -> <<>>

\* Walking a call log with the set of handles that are open: a handle is
\* opened only while it is not open, closed only while it is open, and none
\* is open at the end.
RECURSIVE HandlesReleased(_, _)
HandlesReleased(calls, open) ==
    IF calls = <<>> THEN open = {}
    ELSE LET c == Head(calls) IN
         IF c.api = "CloseServiceHandle"
         THEN c.arg \in open /\ HandlesReleased(Tail(calls), open \ {c.arg})
         ELSE IF OpenedHandle(c) # <<>>
         THEN OpenedHandle(c)[1] \notin open
              /\ HandlesReleased(Tail(calls), open \cup {OpenedHandle(c)[1]})
         ELSE HandlesReleased(Tail(calls), open)

\* C18: when a status query or an enable of SysMain returns, on whichever
\* path, every SCM or service handle it opened has been closed exactly once.
C18_NoHandleLeak ==
    ~Idle => HandlesReleased(last.calls, {})

\* enable_sysmain returned early from a failed ChangeServiceConfigW, after
\* both handles had been opened.
C18_Witness ==
    /\ last.op = "app::enable_sysmain_async"
    /\ \E i \in DOMAIN last.calls :
          last.calls[i].api = "ChangeServiceConfigW" /\ ~last.calls[i].ok
    /\ \E i \in DOMAIN last.calls :
          last.calls[i].api = "OpenServiceW" /\ last.calls[i].ok
             /\ last.calls[i].arg = "SERVICE_CHANGE_CONFIG | SERVICE_START"
    /\ HandlesReleased(last.calls, {})

-----------------------------------------------------------------------------
(* Claims on the Prefetch folder result                                    *)

FolderOps == {"get_prefetch_info", "services::prefetch::get_info"}

\* The folder part of a result, in the field names of sysmain.rs.
FolderResult(l) ==
    IF l.op = "get_prefetch_info"
    THEN [count |-> l.result.value.pf_count,
          accessible |-> l.result.value.folder_accessible,
          error |-> l.result.value.error_message,
          requires_admin |-> l.result.value.requires_admin]
    ELSE [count |-> l.result.value.files.count,
          accessible |-> l.result.value.accessible,
          error |-> l.result.value.error,
          requires_admin |-> FALSE]

\* The folder can be read and holds no file with the extension pf.
ReadableWithoutPf == prefetchDir.kind = "ok" /\ MatchingEntries = {}

\* What either operation reports for the readable empty folder.
EmptyFolderResult ==
    [count |-> 0, accessible |-> TRUE, error |-> NoneV, requires_admin |-> FALSE]

\* C19: the Prefetch folder result is accessible with count 0 and no error
\* message for a readable folder without .pf files; it is inaccessible with a
\* non-empty error message (and requires_admin in sysmain.rs) when reading the
\* folder fails with permission denied, which differs from the result of the
\* empty folder; and an inaccessible result always has an error message.
C19_InaccessibleIsNotEmpty ==
    (last.op \in FolderOps /\ last.result.ok) =>
        LET r == FolderResult(last) IN
        /\ ReadableWithoutPf => (r.accessible /\ r.count = 0 /\ r.error = NoneV)
        /\ prefetchDir.kind = "denied" =>
              /\ ~r.accessible
              /\ r.error # NoneV /\ r.error[1] # ""
              /\ last.op = "get_prefetch_info" => r.requires_admin
              /\ r # EmptyFolderResult
        /\ ~r.accessible => r.error # NoneV

\* services::prefetch::get_info met a folder it may not read.
C19_Witness ==
    /\ last.op = "services::prefetch::get_info"
    /\ prefetchDir.kind = "denied"
    /\ last.result.ok
    /\ ~last.result.value.accessible

-----------------------------------------------------------------------------
(* Claims on the effects of the SysMain enable                             *)

\* The calls that only open, query or close.
ReadOnlyApis ==
    {"OpenSCManagerW", "OpenServiceW", "CloseServiceHandle", "QueryServiceStatus",
     "QueryServiceConfigW"}

Mutations(calls) == SelectSeq(calls, LAMBDA c : c.api \notin ReadOnlyApis)

IsSetAutoStart(c) == c.api = "ChangeServiceConfigW" /\ c.arg = "SERVICE_AUTO_START"

\* C20: the mutations of a SysMain enable are at most ChangeServiceConfig to
\* automatic start followed by StartService; StartService is not invoked after
\* a failed ChangeServiceConfig; and the registry, EnablePrefetcher and
\* EnableSuperfetch included, is left as it was.
C20_EnableEffectSequence ==
    [][last'.op \in SysMainEnableOps =>
        LET muts == Mutations(last'.calls) IN
        /\ Len(muts) <= 2
        /\ Len(muts) >= 1 => IsSetAutoStart(muts[1])
        /\ Len(muts) = 2 => (muts[2].api = "StartServiceW" /\ muts[1].ok)
        /\ hklm' = hklm
        /\ hkcu' = hkcu
        /\ hklmKeys' = hklmKeys]_vars

\* An enable attempt ended at the failed ChangeServiceConfigW.
C20_Witness ==
    /\ last.op = "services::prefetch::enable"
    /\ Len(Mutations(last.calls)) = 1
    /\ IsSetAutoStart(Mutations(last.calls)[1])
    /\ ~Mutations(last.calls)[1].ok

-----------------------------------------------------------------------------
(* Claims on the restore-point frequency                                   *)

FrequencyPath == <<SYSTEM_RESTORE_KEY, "SystemRestorePointCreationFrequency">>

RestoreEnableOps == {"services::system_restore::enable", "app::enable_system_restore_async"}

IsFrequencyWrite(c) ==
    c.api = "write_hklm" /\ c.arg = "SystemRestorePointCreationFrequency"

\* A provider-level enablement that succeeded: the WMI Enable method or
\* Enable-ComputerRestore ended with exit status 0.
IsProviderSuccess(c) == c.api = "powershell" /\ c.arg # "exit 0" /\ c.ok

\* C21: a System Restore enable writes SystemRestorePointCreationFrequency
\* only after a provider-level enablement succeeded and only when the value
\* was absent; a value present before the call is the same after it.
C21_FrequencyNeverOverwritten ==
    [][last'.op \in RestoreEnableOps =>
        /\ \A i \in DOMAIN last'.calls :
              IsFrequencyWrite(last'.calls[i]) =>
                 /\ hklm[FrequencyPath] = NoneV
                 /\ \E j \in 1..(i - 1) : IsProviderSuccess(last'.calls[j])
        /\ hklm[FrequencyPath] # NoneV => hklm'[FrequencyPath] = hklm[FrequencyPath]
        /\ hklm'[FrequencyPath] # hklm[FrequencyPath] =>
              hklm'[FrequencyPath] = Some(DEFAULT_FREQUENCY_MINUTES)]_vars

\* The enable of the services layer has written the default frequency after
\* the WMI method succeeded.
C21_Witness ==
    /\ last.op = "services::system_restore::enable"
    /\ \E i \in DOMAIN last.calls : IsFrequencyWrite(last.calls[i]) /\ last.calls[i].ok
    /\ hklm[FrequencyPath] = Some(DEFAULT_FREQUENCY_MINUTES)

-----------------------------------------------------------------------------
(* Claims on the SysMain status query                                      *)

\* The enum value of each native run state that has one.
RecognisedStatus ==
    [n \in {"SERVICE_RUNNING", "SERVICE_STOPPED", "SERVICE_PAUSED", "SERVICE_START_PENDING",
            "SERVICE_STOP_PENDING"} |->
        CASE n = "SERVICE_RUNNING" -> "Running"
          [] n = "SERVICE_STOPPED" -> "Stopped"
          [] n = "SERVICE_PAUSED" -> "Paused"
          [] n = "SERVICE_START_PENDING" -> "StartPending"
          [] n = "SERVICE_STOP_PENDING" -> "StopPending"]

\* What the last status query met and what it returned.
StatusQuery ==
    IF last.op = "get_sysmain_status"
    THEN [open_failed |-> last.fault \in {"scm", "service"},
          query_failed |-> last.fault = "query",
          ok |-> last.result.ok,
          state |-> last.result.value,
          recognised |-> DOMAIN RecognisedStatus]
    ELSE [open_failed |-> last.os.open \in {"scm", "service"},
          query_failed |-> ~last.os.stateOk,
          ok |-> last.result.ok,
          state |-> last.result.value.service_state,
          recognised |-> {"SERVICE_RUNNING", "SERVICE_STOPPED"}]

\* C22: the SysMain status query never returns an error; it returns NotFound
\* exactly when the SCM or the service handle cannot be opened, Unknown when
\* the status query fails or the native state is not a recognised run state,
\* and the enum value of the native state otherwise.
C22_StatusQueryNeverFails ==
    (\/ last.op = "get_sysmain_status"
     \/ last.op = "services::prefetch::get_info" /\ winDirSet) =>
        LET q == StatusQuery IN
        /\ q.ok
        /\ q.state = "NotFound" <=> q.open_failed
        /\ (~q.open_failed /\ (q.query_failed \/ svcState \notin q.recognised))
              => q.state = "Unknown"
        /\ (~q.open_failed /\ ~q.query_failed /\ svcState \in q.recognised)
              => q.state = RecognisedStatus[svcState]

-----------------------------------------------------------------------------
(* Claims on the window                                                    *)

Features == {"Recent", "SysMain", "SystemRestore"}

CheckOf ==
    [X \in Features |->
        CASE X = "Recent" -> CheckRecent
          [] X = "SysMain" -> CheckSysMain
          [] X = "SystemRestore" -> CheckSystemRestore]

EnableOf ==
    [X \in Features |->
        CASE X = "Recent" -> EnableRecentTask
          [] X = "SysMain" -> EnableSysMainTask
          [] X = "SystemRestore" -> EnableSystemRestoreTask]

\* The message handled by the step that led to the current state.
Handled(tag) == last.op = "update" /\ last.message.tag = tag

\* C23: handling XEnabled(Ok(_)) schedules exactly one task, the check of the
\* same feature X; handling XEnabled(Err(_)) schedules none; and an enable
\* task of X is put in flight only by the message EnableX.
C23_EnabledSchedulesOneCheck ==
    [][\A X \in Features :
         LET delivered == [tasks EXCEPT ![EnableOf[X]] = @ - 1] IN
         /\ (last'.op = "update" /\ last'.message.tag = EnableOf[X].message) =>
               /\ last'.message.result.ok =>
                     /\ last'.task = <<CheckOf[X]>>
                     /\ tasks' = [delivered EXCEPT ![CheckOf[X]] = @ + 1]
               /\ ~last'.message.result.ok =>
                     /\ last'.task = <<>>
                     /\ tasks' = delivered
         /\ tasks'[EnableOf[X]] > tasks[EnableOf[X]] =>
               last'.op = "update" /\ last'.message.tag = "Enable" \o X
    ]_vars

C23_Witness ==
    /\ Handled("RecentEnabled")
    /\ last.message.result.ok
    /\ last.task = <<CheckRecent>>
    /\ tasks[CheckRecent] = 2
    /\ tasks[EnableRecentTask] = 0


StateFields == DOMAIN State_default

InfoField ==
    [X \in Features |->
        CASE X = "Recent" -> "recent_info"
          [] X = "SysMain" -> "sysmain_info"
          [] X = "SystemRestore" -> "system_restore_info"]

LoadingField ==
    [X \in Features |->
        CASE X = "Recent" -> "recent_loading"
          [] X = "SysMain" -> "sysmain_loading"
          [] X = "SystemRestore" -> "system_restore_loading"]

\* C28: handling XChecked(Ok(info)) stores info for X and clears X's loading
\* flag, and changes no other field of the State; handling XChecked(Err(e))
\* clears X's loading flag and sets status_message, and changes no other
\* field: the snapshot stored for X, the snapshots and loading flags of the
\* other two features, is_admin and the detail toggles stay as they were.
C28_CheckedFrame ==
    [][\A X \in Features :
         (last'.op = "update" /\ last'.message.tag = CheckOf[X].message) =>
            LET result == last'.message.result IN
            /\ ~state'[LoadingField[X]]
            /\ result.ok =>
                  /\ state'[InfoField[X]] = Some(result.value)
                  /\ \A f \in StateFields \ {InfoField[X], LoadingField[X]} :
                        state'[f] = state[f]
            /\ ~result.ok =>
                  /\ state'.status_message.args = <<result.error>>
                  /\ \A f \in StateFields \ {LoadingField[X], "status_message"} :
                        state'[f] = state[f]
    ]_vars

C28_Witness ==
    /\ Handled("SysMainChecked")
    /\ ~last.message.result.ok
    /\ state.sysmain_info # NoneV
    /\ state.recent_loading
    /\ state.show_prefetch_details

InFlight(X) == tasks[CheckOf[X]] + tasks[EnableOf[X]]

\* C29: whenever the loading flag of a feature X is true, at least one check
\* or enable task of X has been scheduled and not yet delivered.
C29_LoadingHasTaskInFlight ==
    \A X \in Features : state[LoadingField[X]] => InFlight(X) > 0

C29_Witness ==
    /\ state.sysmain_loading
    /\ tasks[EnableSysMainTask] = 1
    /\ tasks[CheckSysMain] = 0
    /\ InFlight("Recent") > 0
    /\ ~state.recent_loading

NoLoading == \A X \in Features : ~state[LoadingField[X]]

\* C30: when every task in flight is eventually delivered (the process
\* keeps running) and the user presses Refresh and Enable finitely often,
\* the three loading flags are eventually all false and stay false.
C30_LoadingEventuallyClears == ([]running) => <>[]NoLoading

C30_Witness ==
    /\ running
    /\ pressed > 0
    /\ Handled("SystemRestoreEnabled")
    /\ ~last.message.result.ok
    /\ \A t \in AllTasks : tasks[t] = 0
    /\ NoLoading


-----------------------------------------------------------------------------
(* Claims on the detection functions                                       *)

\* The checks of the last status read that are looked up in both hives, each
\* with the value reported for it.
BothHivesChecks ==
    IF last.op = "get_recent_status"
    THEN {[key |-> c.key_path, value |-> c.value_name, current |-> c.current_value] :
            c \in {last.checks[i] : i \in {j \in DOMAIN last.checks :
                                              last.checks[j].location = "Both"}}}
    ELSE IF last.op = "services::recent::get_info"
    THEN {[key |-> c.key, value |-> c.value, current |-> c.actual] :
            c \in {last.checks[i] : i \in {j \in DOMAIN last.checks :
                                              last.checks[j].is_policy}}}
    ELSE {}

\* C24: for a check looked up in both hives, a value present in HKLM is the
\* current value, and the HKCU value is used only when HKLM holds none.
C24_HklmPrecedence ==
    \A c \in BothHivesChecks :
        c.current = IF read_hklm(Registry, c.key, c.value) # NoneV
                    THEN read_hklm(Registry, c.key, c.value)
                    ELSE read_hkcu(Registry, c.key, c.value)


\* The checks of the last status read whose registry value is absent.
AbsentChecks ==
    IF last.op = "get_recent_status"
    THEN {i \in DOMAIN last.checks : last.checks[i].current_value = NoneV}
    ELSE IF last.op = "services::recent::get_info"
    THEN {i \in DOMAIN last.checks : last.checks[i].actual = NoneV}
    ELSE {}

PrefetcherValueAbsent ==
    \/ PREFETCH_PARAMS_KEY \notin hklmKeys
    \/ hklm[<<PREFETCH_PARAMS_KEY, "EnablePrefetcher">>] = NoneV

\* C25: an absent registry value reads as disabled in every detection
\* function: a Recent check without a value is not ok, an absent
\* RPSessionInterval gives global_enabled = false, and an absent
\* EnablePrefetcher value or an unreadable PrefetchParameters key gives a
\* prefetcher mode that is not enabled.
C25_AbsentMeansDisabled ==
    /\ \A i \in AbsentChecks :
          IF last.op = "get_recent_status"
          THEN ~is_enabled(last.checks[i])
          ELSE ~is_ok(last.checks[i])
    /\ (/\ last.op \in {"get_system_restore_info", "services::system_restore::get_info"}
        /\ read_hklm(Registry, SYSTEM_RESTORE_KEY, "RPSessionInterval") = NoneV) =>
          ~last.global_enabled
    /\ (last.op = "get_prefetcher_mode" /\ PrefetcherValueAbsent) =>
          ~mode_is_enabled(last.result.value)


\* C26: when enable_recent returns an OperationResult with success = true,
\* get_recent_status called next on the unchanged registry returns
\* FullyEnabled, for every initial registry content and every pattern of
\* write failures.
C26_SuccessImpliesCleanRecheck ==
    (last.op = "get_recent_status after enable_recent" /\ last.enabled.value.success) =>
        last.result.value.kind = "FullyEnabled"

C26_Witness ==
    /\ last.op = "get_recent_status after enable_recent"
    /\ last.enabled.value.success
    /\ last.result.value.kind = "FullyEnabled"
    /\ hklm[<<POLICY_KEY, "NoRecentDocsHistory">>] = Some(0)


\* C27: in every SystemRestoreInfo that get_system_restore_info produces,
\* is_c_drive_enabled() implies global_enabled; when global_enabled is false
\* drive C: is reported as not enabled, whatever the Cfg and VSS keys hold.
C27_DriveImpliesGlobal ==
    last.op = "get_system_restore_info" =>
        LET info == last.result.value IN
        /\ is_c_drive_enabled(info) => info.global_enabled
        /\ ~info.global_enabled =>
              \A i \in DOMAIN info.drive_statuses : ~info.drive_statuses[i].is_enabled

C27_Witness ==
    /\ last.op = "get_system_restore_info"
    /\ ~last.result.value.global_enabled
    /\ ~is_c_drive_enabled(last.result.value)
    /\ VSS_C_KEY \in hklmKeys
    /\ CFG_C_KEY \in hklmKeys
    /\ hklm[<<CFG_C_KEY, "DiskPercent">>] # NoneV

====
